---- MODULE Spec2Model ----
(***************************************************************************)
(* Geometric alignment engine of the AutoRev pyRevit scripts:              *)
(*   - "Align Views in Sheets" (and its copy "Align Views in Sheets 2"):   *)
(*     curve sampling, grid orientation classification and the            *)
(*     bottom-left grid intersection anchor;                               *)
(*   - "Align Views in Sheets 3": the leftmost / bottom-most grid loop;    *)
(*   - "Grids2DOffsets": clipping a grid line against a rectangle, the     *)
(*     per-side offsets and the End-0 / End-1 remap.                       *)
(*                                                                         *)
(* Python floats are modelled as exact rationals <<n, d>> (d > 0, lowest   *)
(* terms).  A square root is taken only of perfect squares; where the      *)
(* code compares a quotient by a square root, the comparison is done on    *)
(* the squares.                                                            *)
(***************************************************************************)
EXTENDS Integers, Sequences, FiniteSets, TLC

(***************************************************************************)
(* Exact arithmetic                                                        *)
(***************************************************************************)
Abs(n) == IF n < 0 THEN -n ELSE n

RECURSIVE Gcd(_, _)
Gcd(a, b) == IF b = 0 THEN a ELSE Gcd(b, a % b)

Sgn(n) == IF n < 0 THEN -1 ELSE 1
Reduce(n, d, g) == <<n \div g, d \div g>>
\* the rational n/d in lowest terms with a positive denominator
Q(n, d) == Reduce(n * Sgn(d), d * Sgn(d), Gcd(Abs(n), Abs(d)))

I(n) == <<n, 1>>
Zero == I(0)
One == I(1)

\* sums over the least common denominator and products after cancelling
\* across, so that the integers stay small
AddOver(a, b, g) == Q(a[1] * (b[2] \div g) + b[1] * (a[2] \div g), a[2] * (b[2] \div g))
MulOver(a, b, g, h) == Q((a[1] \div g) * (b[1] \div h), (a[2] \div h) * (b[2] \div g))
LessOver(a, b, g) == a[1] * (b[2] \div g) < b[1] * (a[2] \div g)
RNeg(a) == <<-a[1], a[2]>>
RAbs(a) == <<Abs(a[1]), a[2]>>
RInv(a) == <<a[2] * Sgn(a[1]), Abs(a[1])>>
RAdd(a, b) == AddOver(a, b, Gcd(a[2], b[2]))
RSub(a, b) == RAdd(a, RNeg(b))
RMul(a, b) == MulOver(a, b, Gcd(Abs(a[1]), b[2]), Gcd(Abs(b[1]), a[2]))
RDiv(a, b) == RMul(a, RInv(b))
RLt(a, b) == LessOver(a, b, Gcd(a[2], b[2]))
RLe(a, b) == ~ RLt(b, a)
RGt(a, b) == RLt(b, a)
RGe(a, b) == RLe(b, a)
RSq(a) == RMul(a, a)

\* a < 1/t for a >= 0 and an integer t > 0, without forming a[1] * t
RBelowInv(a, t) == a[1] <= (a[2] - 1) \div t
\* a < 1/t^2 for a >= 0
RBelowInvSq(a, t) == a[1] <= ((a[2] - 1) \div t) \div t
\* a > 1/t for an integer t > 0
RAboveInv(a, t) == a[1] > a[2] \div t

\* integer square root of a perfect square
ISqrt(n) == CHOOSE k \in 0..n : k * k = n
IsSquare(n) == \E k \in 0..n : k * k = n
\* math.sqrt of a rational that is the square of a rational
RSqrt(a) == <<ISqrt(a[1]), ISqrt(a[2])>>
RIsSquare(a) == a[1] >= 0 /\ IsSquare(a[1]) /\ IsSquare(a[2])

(***************************************************************************)
(* XYZ: points and vectors <<x, y, z>> of rationals                        *)
(***************************************************************************)
XYZ(x, y, z) == <<x, y, z>>
P3(x, y, z) == <<I(x), I(y), I(z)>>
VAdd(p, q) == <<RAdd(p[1], q[1]), RAdd(p[2], q[2]), RAdd(p[3], q[3])>>
VSub(p, q) == <<RSub(p[1], q[1]), RSub(p[2], q[2]), RSub(p[3], q[3])>>
Multiply(v, k) == <<RMul(v[1], k), RMul(v[2], k), RMul(v[3], k)>>
DotProduct(p, q) == RAdd(RAdd(RMul(p[1], q[1]), RMul(p[2], q[2])), RMul(p[3], q[3]))
\* the square of XYZ.DistanceTo
Norm2(v) == DotProduct(v, v)
Dist2(p, q) == Norm2(VSub(p, q))

RECURSIVE RSum(_)
RSum(s) == IF s = <<>> THEN Zero ELSE RAdd(Head(s), RSum(Tail(s)))

\* Python's None where a point, a number, a curve or a record is expected
None == <<>>
\* Python's None where an orientation name is expected
NoOrient == "None"

(***************************************************************************)
(* Align Views in Sheets: views, curves and the curve sampler              *)
(***************************************************************************)
\* default of the samples parameter of curve_points_in_view_xy
Samples == 11
\* hypot(dx, dy) < 1e-9 rejects a degenerate direction
MagTolInv == 1000000000

\* a host view: its origin and its right / up unit vectors
View(o, r, u) == [Origin |-> o, RightDirection |-> r, UpDirection |-> u]

\* A host curve, by what its methods answer:
\*   Tessellate() raises (tessOK = FALSE) or returns tess;
\*   GetEndParameter raises (parOK = FALSE) or returns t0 / t1;
\*   Evaluate succeeds evalOK times and raises on the next call;
\*   GetEndPoint raises (endsOK = FALSE) or returns p0 / p1.
Curve(tessOK, tess, parOK, evalOK, p0, p1, endsOK, isLine) ==
    [tessOK |-> tessOK, tess |-> tess, parOK |-> parOK, t0 |-> Zero, t1 |-> One,
     evalOK |-> evalOK, p0 |-> p0, p1 |-> p1, endsOK |-> endsOK, isLine |-> isLine]

\* a bound straight line: it tessellates to its two end points
LineCurve(p0, p1) == Curve(TRUE, <<p0, p1>>, TRUE, Samples, p0, p1, TRUE, TRUE)

\* curve.Evaluate(t, True): the point at normalised parameter t
Evaluate(curve, t) == VAdd(curve.p0, Multiply(VSub(curve.p1, curve.p0), t))

ViewXY(view, v) ==
    <<DotProduct(v, view.RightDirection), DotProduct(v, view.UpDirection)>>

to_view_xy(view, p) == ViewXY(view, VSub(p, view.Origin))

from_view_xy(view, x, y) ==
    VAdd(VAdd(view.Origin, Multiply(view.RightDirection, x)),
         Multiply(view.UpDirection, y))

\* a view with its crop box (Min, Max in the plane of the view) and Scale
CroppedView(view, mn, mx, scale) ==
    [Origin |-> view.Origin, RightDirection |-> view.RightDirection,
     UpDirection |-> view.UpDirection, CropBox |-> [Min |-> mn, Max |-> mx],
     Scale |-> scale]

\* sheet_center_pt + XYZ(delta_x_sheet, delta_y_sheet, 0)
LegacyPoint(sheet_center_pt, crop_center, anchor, scale) ==
    VAdd(sheet_center_pt,
         XYZ(RDiv(RSub(anchor[1], crop_center[1]), I(scale)),
             RDiv(RSub(anchor[2], crop_center[2]), I(scale)), Zero))

LegacyScaledUp(view, viewport, model_point) ==
    LegacyPoint(viewport.center,
                Multiply(VAdd(view.CropBox.Min, view.CropBox.Max), RDiv(One, I(2))),
                to_view_xy(view, model_point), 1)

get_sheet_point_from_model_point_legacy(view, viewport, model_point) ==
    LegacyPoint(viewport.center,
                Multiply(VAdd(view.CropBox.Min, view.CropBox.Max), RDiv(One, I(2))),
                to_view_xy(view, model_point), view.Scale)

\* viewport_transform_safe(vp) of Align Views in Sheets: the transform when
\* the viewport has GetTransform, NotImplementedError otherwise
viewport_transform_safe(vp) ==
    IF vp.exposes THEN "transform" ELSE "NotImplementedError"

\* vp.GetTransform().OfPoint(model_anchor): the host's sheet point of the
\* anchor, at vp.image from the box center, or an exception (None)
DirectPoint(vp) ==
    IF vp.image = None THEN None ELSE VAdd(vp.center, vp.image)

\* get_sheet_point_from_model_point_legacy on the viewport; reading the crop
\* box may raise (None)
LegacyOf(vp) ==
    IF ~ vp.cropOK THEN None
    ELSE get_sheet_point_from_model_point_legacy(vp.view, vp, vp.anchor)

\* what a pass over one viewport leaves: the strategy taken, the sheet point
\* it gave (None when it raised), the entry appended to skipped ("" when
\* none), whether the exception left the viewport loop for the except of the
\* sheet block, and the box center before and after
Passed(strategy, current, skipped, leaves, vp, center) ==
    [strategy |-> strategy, current |-> current, skipped |-> skipped,
     leaves |-> leaves, was |-> vp.center, center |-> center,
     moved |-> current # None]

\* Align Views in Sheets 2, lines 457-459: delta = target_pt - current_sheet_pt
MovedBack2(strategy, current, vp, target_pt) ==
    Passed(strategy, current, "", FALSE, vp,
           VAdd(vp.center, VSub(current, target_pt)))

MovedBy2(strategy, current, vp, target_pt) ==
    Passed(strategy, current, "", FALSE, vp,
           VAdd(vp.center, VSub(target_pt, current)))

\* lines 443-459
Answered2(strategy, current, vp, target_pt) ==
    IF current = None
    THEN Passed(strategy, None, "Error calculating transform", FALSE, vp, vp.center)
    ELSE MovedBy2(strategy, current, vp, target_pt)

LegacyFirst(vp, target_pt) ==
    IF vp.cropOK
    THEN Answered2("legacy", LegacyOf(vp), vp, target_pt)
    ELSE Answered2("direct", DirectPoint(vp), vp, target_pt)

AlignOne2(vp, target_pt) ==
    IF vp.exposes
    THEN Answered2("direct", DirectPoint(vp), vp, target_pt)
    ELSE Answered2("legacy", LegacyOf(vp), vp, target_pt)

\* Align Views in Sheets, lines 539-541: delta has no Z
MovedBy1(current, vp, target_pt) ==
    Passed("direct", current, "", FALSE, vp,
           VAdd(vp.center, XYZ(RSub(target_pt[1], current[1]),
                               RSub(target_pt[2], current[2]), Zero)))

\* Align Views in Sheets, lines 529-541, with the except of lines 550-552
AlignOne1(vp, target_pt) ==
    IF viewport_transform_safe(vp) = "NotImplementedError"
    THEN Passed("none", None, "Viewport transform unsupported", FALSE, vp, vp.center)
    ELSE IF DirectPoint(vp) = None
         THEN Passed("direct", None, "Error", TRUE, vp, vp.center)
         ELSE MovedBy1(DirectPoint(vp), vp, target_pt)

\* the parameter of sample i of n: t0 + (t1 - t0) * i / float(samples - 1)
SampleParam(curve, i, samples) ==
    RAdd(curve.t0, RDiv(RMul(RSub(curve.t1, curve.t0), I(i)), I(samples - 1)))

\* the points the parametric loop appends: all of them, or those before
\* Evaluate raised
ParamSampled(view, curve, samples) ==
    [i \in 1..(IF ~ curve.parOK THEN 0
               ELSE IF curve.evalOK < samples THEN curve.evalOK ELSE samples) |->
        to_view_xy(view, Evaluate(curve, SampleParam(curve, i - 1, samples)))]

\* the points the end point fallback appends
EndsSampled(view, curve) ==
    IF curve.endsOK
    THEN <<to_view_xy(view, curve.p0), to_view_xy(view, curve.p1)>>
    ELSE <<>>

curve_points_in_view_xy(view, curve) ==
    IF curve.tessOK /\ Len(curve.tess) >= 2
    THEN [i \in 1..Len(curve.tess) |-> to_view_xy(view, curve.tess[i])]
    ELSE IF curve.parOK /\ curve.evalOK >= (IF Samples < 2 THEN 2 ELSE Samples)
         THEN ParamSampled(view, curve, IF Samples < 2 THEN 2 ELSE Samples)
         ELSE ParamSampled(view, curve, IF Samples < 2 THEN 2 ELSE Samples)
              \o EndsSampled(view, curve)

\* Which strategy of curve_points_in_view_xy runs to its return: the
\* tessellation (lines 71-76), the parametric sampling (lines 80-89), or
\* neither, which leaves the end points (lines 93-100).
TessWorks(curve) == curve.tessOK /\ Len(curve.tess) >= 2
ParamWorks(curve, samples) == curve.parOK /\ curve.evalOK >= samples
EndsWork(curve) == curve.endsOK

\* the strategies the call enters, in the order it enters them
StrategiesTried(curve) ==
    IF TessWorks(curve) THEN <<"tessellation">>
    ELSE IF ParamWorks(curve, IF Samples < 2 THEN 2 ELSE Samples)
         THEN <<"tessellation", "parametric">>
         ELSE <<"tessellation", "parametric", "endpoints">>

(***************************************************************************)
(* Orientation classifier                                                  *)
(***************************************************************************)
\* sum(xs) / float(len(xs)) over coordinate k of the samples
MeanOfEnds(pts, k) == RDiv(RAdd(pts[1][k], pts[Len(pts)][k]), I(2))

Mean(pts, k) == RDiv(RSum([i \in 1..Len(pts) |-> pts[i][k]]), I(Len(pts)))

\* diff / sqrt(m2) > tol, decided on the squares (m2 > 0)
ExceedsTol(diff, m2, tol) ==
    IF RLt(tol, Zero)
    THEN RGe(diff, Zero) \/ RLt(RSq(diff), RMul(RSq(tol), m2))
    ELSE RGt(diff, Zero) /\ RGt(RSq(diff), RMul(RSq(tol), m2))

\* lines 129-134 with ax = adx / mag, ay = ady / mag and m2 = mag^2
OrientationOfGe(adx, ady, m2, axis_tol) ==
    IF RGt(ady, adx) /\ ~ ExceedsTol(RNeg(RSub(ady, adx)), m2, RNeg(axis_tol))
    THEN "vertical"
    ELSE IF RGt(adx, ady) /\ ~ ExceedsTol(RNeg(RSub(adx, ady)), m2, RNeg(axis_tol))
         THEN "horizontal"
         ELSE NoOrient

OrientationOfBelow(adx, ady, m2, axis_tol) ==
    IF RGt(ady, adx) /\ ~ ExceedsTol(RSub(ady, adx), m2, axis_tol)
    THEN "vertical"
    ELSE IF RGt(adx, ady) /\ ~ ExceedsTol(RSub(adx, ady), m2, axis_tol)
         THEN "horizontal"
         ELSE NoOrient

OrientationOf(adx, ady, m2, axis_tol) ==
    IF RGt(ady, adx) /\ ExceedsTol(RSub(ady, adx), m2, axis_tol)
    THEN "vertical"
    ELSE IF RGt(adx, ady) /\ ExceedsTol(RSub(adx, ady), m2, axis_tol)
         THEN "horizontal"
         ELSE NoOrient

\* lines 116-134 on the first-to-last difference (dx, dy) of two or more samples
DirectionClass(dx, dy, axis_tol) ==
    IF RBelowInvSq(RAdd(RSq(dx), RSq(dy)), MagTolInv)
    THEN NoOrient
    ELSE OrientationOf(RAbs(dx), RAbs(dy), RAdd(RSq(dx), RSq(dy)), axis_tol)

\* lines 108-134 on the sampled points
ClassifyPoints(pts, axis_tol) ==
    IF Len(pts) = 0 THEN <<NoOrient, None, None>>
    ELSE IF Len(pts) >= 2
         THEN <<DirectionClass(RSub(pts[Len(pts)][1], pts[1][1]),
                               RSub(pts[Len(pts)][2], pts[1][2]), axis_tol),
                Mean(pts, 1), Mean(pts, 2)>>
         ELSE <<NoOrient, Mean(pts, 1), Mean(pts, 2)>>

classify_grid_orientation(view, curve, axis_tol) ==
    ClassifyPoints(curve_points_in_view_xy(view, curve), axis_tol)

(***************************************************************************)
(* Grid intersection locator                                               *)
(***************************************************************************)
\* a host grid element: its Curve attribute (None when it has none)
Grid(curve) == [Curve |-> curve]

\* lines 151-154: what the loop learns of each grid, in the collector's order:
\* None for a grid without a curve, else its (orient, x_avg, y_avg)
Classified(view, gs, axis_tol) ==
    [n \in 1..Len(gs) |->
        IF gs[n].Curve = None THEN None
        ELSE classify_grid_orientation(view, gs[n].Curve, axis_tol)]

\* lines 155-158 for one grid with a curve
AddCandidate(prev, n, c, orient) ==
    IF c[1] = orient THEN Append(prev, <<n, c[2], c[3]>>) ELSE prev

\* lines 150-158: the candidates (index, x_avg, y_avg) of one orientation
\* among the first n grids, in the order the loop appends them
RECURSIVE Candidates(_, _, _)
Candidates(cl, orient, n) ==
    IF n = 0 THEN <<>>
    ELSE IF cl[n] = None THEN Candidates(cl, orient, n - 1)
         ELSE AddCandidate(Candidates(cl, orient, n - 1), n, cl[n], orient)

vertical_candidates(cl) == Candidates(cl, "vertical", Len(cl))

horizontal_candidates(cl) == Candidates(cl, "horizontal", Len(cl))

\* Python's min(s, key = lambda t: t[k]) on the first n items of a non-empty
\* list: a later item replaces the best one only when its key is smaller
KeepOrTakeLast(best, item, k) == IF RLe(item[k], best[k]) THEN item ELSE best

KeepOrTake(best, item, k) == IF RLt(item[k], best[k]) THEN item ELSE best

RECURSIVE PyMin(_, _, _)
PyMin(s, k, n) ==
    IF n = 1 THEN s[1] ELSE KeepOrTake(PyMin(s, k, n - 1), s[n], k)

\* the grid of the tuple min() returns at line 164 (k = 2) or 165 (k = 3);
\* 0 when the list is empty
PickOf(cands, k) == IF cands = <<>> THEN 0 ELSE PyMin(cands, k, Len(cands))[1]

\* lines 160-167 on the two candidate lists
AnchorLenient(view, v, h) ==
    IF v = <<>> /\ h = <<>> THEN None
    ELSE from_view_xy(view,
                      IF v = <<>> THEN Zero ELSE PyMin(v, 2, Len(v))[2],
                      IF h = <<>> THEN Zero ELSE PyMin(h, 3, Len(h))[3])

AnchorSwapped(view, v, h) ==
    IF v = <<>> \/ h = <<>> THEN None
    ELSE from_view_xy(view, PyMin(h, 3, Len(h))[3], PyMin(v, 2, Len(v))[2])

AnchorOf(view, v, h) ==
    IF v = <<>> \/ h = <<>> THEN None
    ELSE from_view_xy(view, PyMin(v, 2, Len(v))[2], PyMin(h, 3, Len(h))[3])

\* lines 144-167 on the classified grids: pt is the value returned; left and
\* bottom are the grids of the tuples the two min() calls selected
Located(view, gs, v, h) ==
    [pt |-> IF gs = <<>> THEN None ELSE AnchorOf(view, v, h),
     left |-> PickOf(v, 2),
     bottom |-> PickOf(h, 3)]

LocatedFrom(view, gs, cl) ==
    Located(view, gs, vertical_candidates(cl), horizontal_candidates(cl))

find_bottom_left_grid_intersection(view, gs, axis_tol) ==
    LocatedFrom(view, gs, Classified(view, gs, axis_tol))

(***************************************************************************)
(* Align Views in Sheets 3: the leftmost / bottom-most grid loop           *)
(***************************************************************************)
\* direction.IsAlmostEqualTo(axis) or direction.IsAlmostEqualTo(-axis) for
\* the direction d of a line and the axis with index k (1 = X, 2 = Y)
IsAlongAxis(d, k) ==
    /\ d[k] # Zero
    /\ \A j \in 1..3 : j # k => d[j] = Zero

\* lines 92-109 for one grid with a curve
PickStep3(acc, n, curve) ==
    IF ~ curve.isLine THEN acc
    ELSE IF IsAlongAxis(VSub(curve.p1, curve.p0), 2)
         THEN IF acc.min_x = None \/ RLt(curve.p0[1], acc.min_x)
              THEN [acc EXCEPT !.left = n, !.min_x = curve.p0[1]]
              ELSE acc
         ELSE IF IsAlongAxis(VSub(curve.p1, curve.p0), 1)
              THEN IF acc.min_y = None \/ RLt(curve.p0[2], acc.min_y)
                   THEN [acc EXCEPT !.bottom = n, !.min_y = curve.p0[2]]
                   ELSE acc
              ELSE acc

\* lines 85-109: [left, min_x, bottom, min_y] after the first n grids, a grid
\* by its index (0: none yet) and None standing for float('inf')
RECURSIVE PickLoop3(_, _)
PickLoop3(gs, n) ==
    IF n = 0 THEN [left |-> 0, min_x |-> None, bottom |-> 0, min_y |-> None]
    ELSE IF gs[n].Curve = None THEN PickLoop3(gs, n - 1)
         ELSE PickStep3(PickLoop3(gs, n - 1), n, gs[n].Curve)

(***************************************************************************)
(* Align Views in Sheets 3: the text note at the grid intersection         *)
(***************************************************************************)
\* a view placed on the sheet: CanBePrinted, CropBoxActive, CropBox (Min,
\* Max), Scale, and its viewport on the sheet (None when the sheet lists
\* none for it) with GetBoxCenter() and Rotation
PlacedView(printable, active, mn, mx, scale, vp) ==
    [CanBePrinted |-> printable, CropBoxActive |-> active,
     CropBox |-> [Min |-> mn, Max |-> mx], Scale |-> scale, viewport |-> vp]
Viewport(center, rotation) == [center |-> center, Rotation |-> rotation]

\* curve_left.Intersect(curve_bottom) for a bound line along Y and a bound
\* line along X: the point of SetComparisonResult.Overlap, None otherwise
Within(a, lo, hi) == (RLe(lo, a) /\ RLe(a, hi)) \/ (RLe(hi, a) /\ RLe(a, lo))
Intersect(left, bottom) ==
    IF /\ left.p0[3] = bottom.p0[3]
       /\ Within(bottom.p0[2], left.p0[2], left.p1[2])
       /\ Within(left.p0[1], bottom.p0[1], bottom.p1[1])
    THEN <<left.p0[1], bottom.p0[2], left.p0[3]>>
    ELSE None

\* lines 137-148 for one placed view
IsSuitable(v, pt) ==
    /\ v.CanBePrinted
    /\ v.CropBoxActive =>
         /\ RLe(v.CropBox.Min[1], pt[1]) /\ RLe(pt[1], v.CropBox.Max[1])
         /\ RLe(v.CropBox.Min[2], pt[2]) /\ RLe(pt[2], v.CropBox.Max[2])

\* lines 128-148: the index of the first suitable view, 0 when there is none
RECURSIVE SuitableFrom(_, _, _)
SuitableFrom(views, pt, n) ==
    IF n > Len(views) THEN 0
    ELSE IF IsSuitable(views[n], pt) THEN n
    ELSE SuitableFrom(views, pt, n + 1)

\* lines 179-190: the offset on the sheet of the scaled offset v in the view,
\* None when no branch of the dispatch takes the rotation
RotatedSwapped(rotation, v) ==
    CASE rotation = "None" -> XYZ(v[1], v[2], Zero)
      [] rotation = "NinetyDegreesCounterclockwise" -> XYZ(v[2], RNeg(v[1]), Zero)
      [] rotation = "Clockwise" -> XYZ(RNeg(v[2]), v[1], Zero)
      [] rotation \in {"Halfway", "OneHundredEightyDegrees"} ->
           XYZ(RNeg(v[1]), RNeg(v[2]), Zero)
      [] OTHER -> None

RotatedOrPlain(rotation, v) ==
    CASE rotation = "NinetyDegreesCounterclockwise" -> XYZ(RNeg(v[2]), v[1], Zero)
      [] rotation = "Clockwise" -> XYZ(v[2], RNeg(v[1]), Zero)
      [] rotation \in {"Halfway", "OneHundredEightyDegrees"} ->
           XYZ(RNeg(v[1]), RNeg(v[2]), Zero)
      [] OTHER -> XYZ(v[1], v[2], Zero)

Rotated(rotation, v) ==
    CASE rotation = "None" -> XYZ(v[1], v[2], Zero)
      [] rotation = "NinetyDegreesCounterclockwise" -> XYZ(RNeg(v[2]), v[1], Zero)
      [] rotation = "Clockwise" -> XYZ(v[2], RNeg(v[1]), Zero)
      [] rotation \in {"Halfway", "OneHundredEightyDegrees"} ->
           XYZ(RNeg(v[1]), RNeg(v[2]), Zero)
      [] OTHER -> None

\* what the pass over one sheet leaves: the position of the text note created
\* (None when none was), the line printed, raised when TextNote.Create
\* raised, and the locals: the intersection point, the view and the viewport
\* used, the scaled offset in the view and the offset on the sheet (None
\* where not reached)
Noted(at, msg, raised, pt, scaled, off) ==
    [at |-> at, msg |-> msg, raised |-> raised, pt |-> pt, used |-> 0,
     scaled |-> scaled, off |-> off]

\* lines 192-204
PlacedAt(sheet, vp, pt, scaled, off) ==
    IF off = None
    THEN Noted(None, "Warning: Unsupported viewport rotation", FALSE, pt, scaled, off)
    ELSE IF sheet.createOK
         THEN Noted(VAdd(vp.center, off), "Success", FALSE, pt, scaled, off)
         ELSE Noted(None, "", TRUE, pt, scaled, off)

\* lines 162-190: offset_vector_model / view_scale, then the dispatch
OffsetIn(sheet, v, pt, scaled) ==
    PlacedAt(sheet, v.viewport, pt, scaled, Rotated(v.viewport.Rotation, scaled))

\* lines 150-206 for the suitable view v
InView(sheet, v, pt) ==
    IF v.viewport = None
    THEN Noted(None, "Warning: Could not find the viewport", FALSE, pt, None, None)
    ELSE OffsetIn(sheet, v, pt,
                  Multiply(VSub(pt, Multiply(VAdd(v.CropBox.Min, v.CropBox.Max), RDiv(One, I(2)))),
                           RDiv(One, I(v.Scale))))

\* lines 123-210 for the intersection point
AtPoint(sheet, pt, n) ==
    IF n = 0
    THEN Noted(None, "Warning: Grid intersection is outside the crop region", FALSE,
               pt, None, None)
    ELSE [InView(sheet, sheet.views[n], pt) EXCEPT !.used = n]

\* lines 119-216 for the answer of Intersect
Crossing(sheet, pt) ==
    IF pt = None
    THEN Noted(None, "Grids do not intersect", FALSE, None, None, None)
    ELSE AtPoint(sheet, pt, SuitableFrom(sheet.views, pt, 1))

\* lines 113-222 for the grids the loop selected
Chosen(sheet, pick) ==
    IF pick.left = 0 \/ pick.bottom = 0
    THEN Noted(None, "Warning: Could not determine", FALSE, None, None, None)
    ELSE Crossing(sheet, Intersect(sheet.grids[pick.left].Curve,
                                   sheet.grids[pick.bottom].Curve))

\* lines 55-222: the pass of the loop for one sheet
place_text_on_sheet(sheet) ==
    IF sheet.grids = <<>>
    THEN Noted(None, "No grids found on this sheet", FALSE, None, None, None)
    ELSE Chosen(sheet, PickLoop3(sheet.grids, Len(sheet.grids)))

(***************************************************************************)
(* Grids2DOffsets: rectangle, line / segment intersection                  *)
(***************************************************************************)
\* tol of set_grid_2d_extents_in_view (1e-7), tol of line_seg_intersection_2d
\* (1e-9), the distance below which two hits are one (1e-6) and min_len_ft
\* (1e-4), each as the inverse of the float
TolInv == 10000000
SegTolInv == 1000000000
MergeInv == 1000000
MinLenInv == 10000

\* a straight grid curve (Line) and a curved one, by their end points
GLine(p0, p1) == [isLine |-> TRUE, p0 |-> p0, p1 |-> p1]
GArc(p0, p1) == [isLine |-> FALSE, p0 |-> p0, p1 |-> p1]

\* a BoundingBoxXYZ: Min, Max and the Transform (origin and basis vectors)
BBox(mn, mx, o, bx, by) ==
    [Min |-> mn, Max |-> mx, Origin |-> o, BasisX |-> bx, BasisY |-> by,
     BasisZ |-> P3(0, 0, 1)]

\* Transform.OfPoint
OfPoint(T, p) ==
    VAdd(VAdd(VAdd(T.Origin, Multiply(T.BasisX, p[1])), Multiply(T.BasisY, p[2])),
         Multiply(T.BasisZ, p[3]))

Half == Q(1, 2)
Mid(a, b) == RMul(Half, RAdd(a, b))

\* the corner of the box at (x, y) of its own frame
CornerOf(bbox, x, y) == OfPoint(bbox, <<x, y, Mid(bbox.Min[3], bbox.Max[3])>>)

\* bbox_corners_2d: <<p00, p10, p11, p01, center>>
bbox_corners_2d(bbox) ==
    << CornerOf(bbox, bbox.Min[1], bbox.Min[2]),
       CornerOf(bbox, bbox.Max[1], bbox.Min[2]),
       CornerOf(bbox, bbox.Max[1], bbox.Max[2]),
       CornerOf(bbox, bbox.Min[1], bbox.Max[2]),
       CornerOf(bbox, Mid(bbox.Min[1], bbox.Max[1]), Mid(bbox.Min[2], bbox.Max[2])) >>

\* line 246: the edges in the order bottom, right, top, left
Edges(rect) ==
    << <<rect[1], rect[2], "bottom">>, <<rect[2], rect[3], "right">>,
       <<rect[3], rect[4], "top">>, <<rect[4], rect[1], "left">> >>

Miss == <<FALSE, None, None, None>>

\* lines 147-152
SegAt(p, v, a, t, u) ==
    IF RAboveInv(RNeg(u), SegTolInv) \/ RAboveInv(RSub(u, One), SegTolInv)
    THEN Miss
    ELSE <<TRUE, XYZ(RAdd(p[1], RMul(t, v[1])), RAdd(p[2], RMul(t, v[2])), a[3]), t, u>>

\* lines 141-146
SegCut(p, v, a, sx, sy, denom, dx, dy) ==
    IF RBelowInv(RAbs(denom), SegTolInv)
    THEN Miss
    ELSE SegAt(p, v, a,
               RDiv(RSub(RMul(dx, sy), RMul(dy, sx)), denom),
               RDiv(RSub(RMul(dx, v[2]), RMul(dy, v[1])), denom))

SegSolve(p, v, a, sx, sy) ==
    SegCut(p, v, a, sx, sy, RSub(RMul(v[1], sy), RMul(v[2], sx)),
           RSub(a[1], p[1]), RSub(a[2], p[2]))

\* (hit, ip, t, u) for the line p + t v and the segment a b
line_seg_intersection_2d(p, v, a, b) ==
    SegSolve(p, v, a, RSub(b[1], a[1]), RSub(b[2], a[2]))

project_point_onto_line_3d(point, line_origin, line_dir_unit) ==
    VAdd(line_origin,
         Multiply(line_dir_unit, DotProduct(VSub(point, line_origin), line_dir_unit)))

dist2_xy(a, b) == RAdd(RSq(RSub(a[1], b[1])), RSq(RSub(a[2], b[2])))

\* lines 250-254: what each edge answers, then the hits (ip, t, side) among
\* the first n edges
EdgeAnswers(origin2, v2, edges) ==
    << line_seg_intersection_2d(origin2, v2, edges[1][1], edges[1][2]),
       line_seg_intersection_2d(origin2, v2, edges[2][1], edges[2][2]),
       line_seg_intersection_2d(origin2, v2, edges[3][1], edges[3][2]),
       line_seg_intersection_2d(origin2, v2, edges[4][1], edges[4][2]) >>

RECURSIVE HitList(_, _, _)
HitList(ans, edges, n) ==
    IF n = 0 THEN <<>>
    ELSE IF ans[n][1]
         THEN Append(HitList(ans, edges, n - 1), <<ans[n][2], ans[n][3], edges[n][3]>>)
         ELSE HitList(ans, edges, n - 1)

\* lines 257-261: a hit is kept unless an earlier kept hit is closer than 1e-6
AddUnique(unique, h) ==
    IF \E q \in 1..Len(unique) : RBelowInvSq(Dist2(h[1], unique[q][1]), MergeInv)
    THEN unique
    ELSE Append(unique, h)

RECURSIVE Unique(_, _)
Unique(hits, n) ==
    IF n = 0 THEN <<>> ELSE AddUnique(Unique(hits, n - 1), hits[n])

\* hits.sort(key = t) is stable: hits[0] is the first hit with the least t,
\* hits[-1] the last hit with the greatest t
LaterIfNotLess(best, item) == IF RGe(item[2], best[2]) THEN item ELSE best

RECURSIVE SortedLast(_, _)
SortedLast(hits, n) ==
    IF n = 1 THEN hits[1] ELSE LaterIfNotLess(SortedLast(hits, n - 1), hits[n])

FirstFound(hits) == hits[1]

SortedFirst(hits) == PyMin(hits, 2, Len(hits))

(***************************************************************************)
(* Grids2DOffsets: offsets and the End-0 / End-1 remap                     *)
(***************************************************************************)
\* line 282
ChooseByNearer(q_plus, q_minus, is_outside, d_plus, d_minus) ==
    IF (IF is_outside THEN RLe(d_plus, d_minus) ELSE RGe(d_plus, d_minus))
    THEN q_plus ELSE q_minus

ChooseBy(q_plus, q_minus, is_outside, d_plus, d_minus) ==
    IF (IF is_outside THEN RGe(d_plus, d_minus) ELSE RLe(d_plus, d_minus))
    THEN q_plus ELSE q_minus

ChooseOf(q_plus, q_minus, is_outside, rect_center) ==
    ChooseBy(q_plus, q_minus, is_outside,
             dist2_xy(q_plus, rect_center), dist2_xy(q_minus, rect_center))

\* lines 278-282 (and choose2, lines 315-320, with v2d for v3)
choose_endpoint(p_on, offset_mag, is_outside, v3, rect_center) ==
    ChooseOf(VAdd(p_on, Multiply(v3, offset_mag)),
             VSub(p_on, Multiply(v3, offset_mag)), is_outside, rect_center)

\* lines 216-220
MapByFar(p1, p2, s_keep, s_swap) == IF RLt(s_keep, s_swap) THEN <<p2, p1>> ELSE <<p1, p2>>

MapBy(p1, p2, s_keep, s_swap) == IF RLt(s_swap, s_keep) THEN <<p2, p1>> ELSE <<p1, p2>>

MapKept(p1, p2, basis_line) == <<p1, p2>>

MapSwapped(p1, p2, basis_line) == <<p2, p1>>

_map_endpoints_to_basis(p1, p2, basis_line) ==
    IF basis_line = None THEN <<p1, p2>>
    ELSE IF ~ basis_line.isLine THEN <<p1, p2>>
    ELSE MapBy(p1, p2,
               RAdd(dist2_xy(p1, basis_line.p0), dist2_xy(p2, basis_line.p1)),
               RAdd(dist2_xy(p1, basis_line.p1), dist2_xy(p2, basis_line.p0)))

\* grid.Curve when it is a Line
grid_line_from_grid(g) ==
    IF g.Curve = None THEN None
    ELSE IF g.Curve.isLine THEN g.Curve ELSE None

\* ensure_2d_in_view on the view-specific curve cur2d of the grid: the curve
\* stored afterwards, and whether SetCurveInView raised out of the function.
\* host.setModel / host.setLine: the host accepts the model curve / grid.Curve
\* as the view-specific curve.
EnsureTurned(g, host) ==
    IF g.cur2d = None
    THEN [cur2d |-> [g.Curve EXCEPT !.p0 = g.Curve.p1, !.p1 = g.Curve.p0], raised |-> FALSE]
    ELSE [cur2d |-> g.Curve, raised |-> FALSE]

ensure_2d_in_view(g, host) ==
    IF g.cur2d = None /\ g.model # <<>> /\ host.setModel
    THEN [cur2d |-> g.model[1], raised |-> FALSE]
    ELSE IF grid_line_from_grid(g) = None
         THEN [cur2d |-> g.cur2d, raised |-> FALSE]
         ELSE IF host.setLine
              THEN [cur2d |-> grid_line_from_grid(g), raised |-> FALSE]
              ELSE [cur2d |-> g.cur2d, raised |-> TRUE]

\* the grid g with cur2d the current view-specific curve
_get_basis_curve_for_orientation(g, cur2d) ==
    IF cur2d # None /\ cur2d.isLine THEN cur2d
    ELSE IF g.model # <<>> /\ g.model[1].isLine THEN g.model[1]
    ELSE grid_line_from_grid(g)

(***************************************************************************)
(* Grids2DOffsets: set_grid_2d_extents_in_view                             *)
(***************************************************************************)
Sides == {"bottom", "right", "top", "left"}

\* str.strip().lower() on the mode texts of the model
StripLower(text) ==
    CASE text = "Outside" -> "outside"
      [] text = " outside " -> "outside"
      [] text = "Inside" -> "inside"
      [] OTHER -> text

\* lines 273-276: (modes_by_side.get(side, 'outside') or 'outside')
IsOutside(modes_by_side, side) ==
    IF side \notin DOMAIN modes_by_side THEN TRUE
    ELSE IF modes_by_side[side] = "" THEN TRUE
    ELSE StripLower(modes_by_side[side]) = "outside"

\* lines 284-285: float(offsets_ft.get(side, 0.0))
OffsetOf(offsets_ft, side) ==
    IF side \in DOMAIN offsets_ft THEN offsets_ft[side] ELSE Zero

\* what a call leaves behind: the tuple returned (ok, msg), raised when an
\* exception left the function instead, the view-specific curve cur2d of the
\* grid afterwards, and the locals of the call (None where not reached), with
\* tries, the attempts to store the computed line in the order made, each
\* with what the host answered
Outcome(ok, msg, raised, cur2d, loc) ==
    [ok |-> ok, msg |-> msg, raised |-> raised, cur2d |-> cur2d, loc |-> loc]

NoLocals ==
    [hits |-> None, A |-> None, B |-> None, pA_on |-> None, pB_on |-> None,
     p1 |-> None, p2 |-> None, basis |-> None, e0 |-> None, e1 |-> None,
     path |-> "none", tries |-> <<>>]

Locals(hits, A, B, pA_on, pB_on, p1, p2) ==
    [hits |-> hits, A |-> A, B |-> B, pA_on |-> pA_on, pB_on |-> pB_on,
     p1 |-> p1, p2 |-> p2, basis |-> None, e0 |-> None, e1 |-> None,
     path |-> "none", tries |-> <<>>]

Mapped(loc, basis, ends, path) ==
    [loc EXCEPT !.basis = basis, !.e0 = ends[1], !.e1 = ends[2], !.path = path]

Tried(loc, what, ok) ==
    [loc EXCEPT !.tries = Append(@, [what |-> what, ok |-> ok])]

\* lines 322-327: the fallback's end points stored when long enough
FallbackStoreRaising(g, host, cur, loc, ex1, q) ==
    IF RBelowInvSq(Dist2(q[1], q[2]), MinLenInv)
    THEN Outcome(FALSE, ex1, FALSE, cur, loc)
    ELSE IF host.fallback
         THEN Outcome(TRUE, "Updated (fallback 2D basis).", FALSE,
                      GLine(q[1], q[2]),
                      Tried(Mapped(loc, cur, q, "fallback"), "fallback", TRUE))
         ELSE Outcome(FALSE, "raised", TRUE, cur, Tried(loc, "fallback", FALSE))

FallbackStore(g, host, cur, loc, ex1, q) ==
    IF RBelowInvSq(Dist2(q[1], q[2]), MinLenInv)
    THEN Outcome(FALSE, ex1, FALSE, cur, loc)
    ELSE IF host.fallback
         THEN Outcome(TRUE, "Updated (fallback 2D basis).", FALSE,
                      GLine(q[1], q[2]),
                      Tried(Mapped(loc, cur, q, "fallback"), "fallback", TRUE))
         ELSE Outcome(FALSE, "ERROR (fallback failed)", FALSE, cur,
                      Tried(loc, "fallback", FALSE))

\* line 324, on the points q = <<q1, q2>> of lines 322-323; equal points
\* stay as they are under either pairing
FallbackMap(g, host, cur, loc, ex1, q) ==
    IF q[1] = q[2]
    THEN FallbackStore(g, host, cur, loc, ex1, q)
    ELSE FallbackStore(g, host, cur, loc, ex1, _map_endpoints_to_basis(q[1], q[2], cur))

\* lines 311-323
FallbackOn(g, rect, offsets_ft, modes_by_side, host, cur, loc, ex1, v2d) ==
    FallbackMap(g, host, cur, loc, ex1,
        << choose_endpoint(project_point_onto_line_3d(loc.A[1], cur.p0, v2d),
                           OffsetOf(offsets_ft, loc.A[3]),
                           IsOutside(modes_by_side, loc.A[3]), v2d, rect[5]),
           choose_endpoint(project_point_onto_line_3d(loc.B[1], cur.p0, v2d),
                           OffsetOf(offsets_ft, loc.B[3]),
                           IsOutside(modes_by_side, loc.B[3]), v2d, rect[5]) >>)

\* lines 307-311
FallbackAlong(g, rect, offsets_ft, modes_by_side, host, cur, loc, ex1, d2v, n2) ==
    IF ~ RAboveInv(RSqrt(n2), TolInv)
    THEN Outcome(FALSE, ex1, FALSE, cur, loc)
    ELSE FallbackOn(g, rect, offsets_ft, modes_by_side, host, cur, loc, ex1,
                    Multiply(d2v, RDiv(One, RSqrt(n2))))

\* lines 300-330: the handler of the first attempt's exception
Fallback(g, rect, offsets_ft, modes_by_side, host, cur, loc, ex1) ==
    IF cur = None THEN Outcome(FALSE, ex1, FALSE, cur, loc)
    ELSE IF ~ cur.isLine THEN Outcome(FALSE, ex1, FALSE, cur, loc)
    ELSE FallbackAlong(g, rect, offsets_ft, modes_by_side, host, cur, loc, ex1,
                       VSub(cur.p1, cur.p0), Dist2(cur.p1, cur.p0))

\* lines 293-299. host.primary: Line.CreateBound and SetCurveInView accept
\* the new line
StoreMapped(g, rect, offsets_ft, modes_by_side, host, cur, loc, basis, ends) ==
    IF host.primary
    THEN Outcome(TRUE, "Updated.", FALSE, GLine(ends[1], ends[2]),
                 Tried(Mapped(loc, basis, ends, "primary"), "primary", TRUE))
    ELSE Fallback(g, rect, offsets_ft, modes_by_side, host, cur,
                  Tried(Mapped(loc, basis, ends, "none"), "primary", FALSE),
                  "ERROR: ex1")

StoreOn(g, rect, offsets_ft, modes_by_side, host, cur, loc, basis) ==
    StoreMapped(g, rect, offsets_ft, modes_by_side, host, cur, loc, basis,
                _map_endpoints_to_basis(loc.p1, loc.p2, basis))

\* lines 292-293
Store(g, rect, offsets_ft, modes_by_side, host, ens, loc) ==
    IF ens.raised THEN Outcome(FALSE, "raised", TRUE, ens.cur2d, loc)
    ELSE StoreOn(g, rect, offsets_ft, modes_by_side, host, ens.cur2d, loc,
                 _get_basis_curve_for_orientation(g, ens.cur2d))

\* the geometry of a call: the message of the check that stopped it ("" when
\* none did) and its locals
Computed(msg, loc) == [msg |-> msg, loc |-> loc]

\* lines 289-290
CheckedLenient(loc) == Computed("", loc)

Checked(loc) ==
    IF RBelowInvSq(Dist2(loc.p1, loc.p2), MinLenInv)
    THEN Computed("Skipped (new 2D length too small).", loc)
    ELSE Computed("", loc)

\* lines 269-287
Offset(g, rect, offsets_ft, modes_by_side, v3, hits, A, B, pA_on, pB_on) ==
    Checked(Locals(hits, A, B, pA_on, pB_on,
                   choose_endpoint(pA_on, OffsetOf(offsets_ft, A[3]),
                                   IsOutside(modes_by_side, A[3]), v3, rect[5]),
                   choose_endpoint(pB_on, OffsetOf(offsets_ft, B[3]),
                                   IsOutside(modes_by_side, B[3]), v3, rect[5])))

Projected(g, rect, offsets_ft, modes_by_side, v3, hits, A, B) ==
    Offset(g, rect, offsets_ft, modes_by_side, v3, hits, A, B,
           project_point_onto_line_3d(A[1], g.Curve.p0, v3),
           project_point_onto_line_3d(B[1], g.Curve.p0, v3))

\* lines 262-267
ClippedLenient(g, rect, offsets_ft, modes_by_side, v3, hits) ==
    IF Len(hits) < 1
    THEN Computed("Skipped (grid does not intersect box twice).",
                  [NoLocals EXCEPT !.hits = hits])
    ELSE Projected(g, rect, offsets_ft, modes_by_side, v3, hits,
                   SortedFirst(hits), SortedLast(hits, Len(hits)))

Clipped(g, rect, offsets_ft, modes_by_side, v3, hits) ==
    IF Len(hits) < 2
    THEN Computed("Skipped (grid does not intersect box twice).",
                  [NoLocals EXCEPT !.hits = hits])
    ELSE Projected(g, rect, offsets_ft, modes_by_side, v3, hits,
                   SortedFirst(hits), SortedLast(hits, Len(hits)))

\* lines 249-261
HitsOf(origin2, v2, edges) == HitList(EdgeAnswers(origin2, v2, edges), edges, 4)

UniqueHits(hits) == Unique(hits, Len(hits))

\* lines 238-244
InPlan(g, rect, offsets_ft, modes_by_side, v3, n2) ==
    IF RBelowInvSq(n2, TolInv)
    THEN Computed("Skipped (grid unsuitable in plan).", NoLocals)
    ELSE Clipped(g, rect, offsets_ft, modes_by_side, v3,
                 UniqueHits(HitsOf(XYZ(g.Curve.p0[1], g.Curve.p0[2], rect[1][3]),
                                   XYZ(RDiv(v3[1], RSqrt(n2)), RDiv(v3[2], RSqrt(n2)), Zero),
                                   Edges(rect))))

Directed(g, rect, offsets_ft, modes_by_side, v3) ==
    InPlan(g, rect, offsets_ft, modes_by_side, v3, RAdd(RSq(v3[1]), RSq(v3[2])))

\* lines 232-237
Measured(g, rect, offsets_ft, modes_by_side, d3, n2) ==
    IF RBelowInvSq(n2, TolInv)
    THEN Computed("Skipped (degenerate grid line).", NoLocals)
    ELSE Directed(g, rect, offsets_ft, modes_by_side, Multiply(d3, RDiv(One, RSqrt(n2))))

\* lines 229-290: the part of the call that reads only
ComputeLengthFirst(g, rect, offsets_ft, modes_by_side) ==
    IF g.Curve # None /\ g.Curve.p0 = g.Curve.p1
    THEN Computed("Skipped (degenerate grid line).", NoLocals)
    ELSE IF grid_line_from_grid(g) = None
    THEN Computed("Skipped (curved grid).", NoLocals)
    ELSE Measured(g, rect, offsets_ft, modes_by_side,
                  VSub(g.Curve.p1, g.Curve.p0), Dist2(g.Curve.p1, g.Curve.p0))

Compute(g, rect, offsets_ft, modes_by_side) ==
    IF grid_line_from_grid(g) = None
    THEN Computed("Skipped (curved grid).", NoLocals)
    ELSE Measured(g, rect, offsets_ft, modes_by_side,
                  VSub(g.Curve.p1, g.Curve.p0), Dist2(g.Curve.p1, g.Curve.p0))

\* lines 292-330: the part of the call that may store
Conclude(g, rect, offsets_ft, modes_by_side, host, geo) ==
    IF geo.msg # ""
    THEN Outcome(FALSE, geo.msg, FALSE, g.cur2d, geo.loc)
    ELSE Store(g, rect, offsets_ft, modes_by_side, host, ensure_2d_in_view(g, host), geo.loc)

\* the grid g = [Curve, cur2d, model], the rectangle <<p00, p10, p11, p01,
\* center>> of bbox_corners_2d, the two dicts and the host's answers
set_grid_2d_extents_in_view(g, rect, offsets_ft, modes_by_side, host) ==
    Conclude(g, rect, offsets_ft, modes_by_side, host,
             Compute(g, rect, offsets_ft, modes_by_side))

(***************************************************************************)
(* Grids2DOffsets: the grid loop of main() and the bubbles                 *)
(***************************************************************************)
\* lines 332-338
END_CHOICES == {"End 1 Only", "End 2 Only", "Both Ends", "None"}

\* END_MAP.get(choice, (True, True))
END_MAP(choice) ==
    CASE choice = "End 1 Only" -> <<TRUE, FALSE>>
      [] choice = "End 2 Only" -> <<FALSE, TRUE>>
      [] choice = "Both Ends" -> <<TRUE, TRUE>>
      [] choice = "None" -> <<FALSE, FALSE>>
      [] OTHER -> <<TRUE, TRUE>>

\* lines 340-349 on bubbles = <<End-0 shown, End-1 shown>> of the grid in the
\* view. accepts[i]: the host carries out the call for that end; when it
\* raises, the except passes and the bubble stays as it was
apply_grid_end_choice(bubbles, accepts, choice) ==
    << IF accepts[1] THEN END_MAP(choice)[1] ELSE bubbles[1],
       IF accepts[2] THEN END_MAP(choice)[2] ELSE bubbles[2] >>

\* a grid in a view as the loop meets it: the grid with its curves in the
\* view, the host's answers during its call, its bubbles, the host's answers
\* to the bubble calls; and what the loop leaves: the list its message went
\* to ("" before the pass) and whether apply_grid_end_choice was called
GridInView(g, host, bubbles, accepts) ==
    [grid |-> g, host |-> host, bubbles |-> bubbles, accepts |-> accepts,
     said |-> "", ends |-> FALSE]

\* lines 1139-1148 for the outcome out of the call of line 1140
GridLooped(pr, out, choice) ==
    IF out.raised
    THEN [pr EXCEPT !.grid.cur2d = out.cur2d, !.said = "errors"]
    ELSE [pr EXCEPT !.grid.cur2d = out.cur2d,
                    !.said = IF out.ok THEN "results" ELSE "skipped",
                    !.bubbles = apply_grid_end_choice(pr.bubbles, pr.accepts, choice),
                    !.ends = TRUE]

\* lines 1138-1148: one pass of the loop over grids_in_view
GridLoopBody(pr, rect, offsets_ft, modes_by_side, choice) ==
    GridLooped(pr, set_grid_2d_extents_in_view(pr.grid, rect, offsets_ft,
                                               modes_by_side, pr.host), choice)

\* the run after the pass over pair i left pr: line 1143 counts it
ProcessedAcross(job, i, pr) ==
    [job EXCEPT !.pairs = [j \in DOMAIN job.pairs |->
                              IF j = i THEN pr
                              ELSE IF j \in job.todo
                                   THEN [job.pairs[j] EXCEPT !.grid.cur2d = pr.grid.cur2d]
                                   ELSE job.pairs[j]],
                !.todo = @ \ {i},
                !.grids_modified = IF pr.said = "results" THEN @ + 1 ELSE @]

Processed(job, i, pr) ==
    [job EXCEPT !.pairs[i] = pr,
                !.todo = @ \ {i},
                !.grids_modified = IF pr.said = "results" THEN @ + 1 ELSE @]


(***************************************************************************)
(* State                                                                   *)
(***************************************************************************)
VARIABLES
    view,        \* the view whose grids are classified / located
    grids,       \* the grids the collector returns for the view, in order
    axis_tol,    \* the axis tolerance handed to the classifier
    cls,         \* the last result of classify_grid_orientation, with its tolerance
    clsPrev,     \* the result of the call before it, on the same view and curve
    anchor,      \* the last result of find_bottom_left_grid_intersection
    anchorPrev,  \* the result of the run before it
    runs,        \* how often the locator ran on this view
    pick3,       \* leftmost_grid / bottommost_grid of Align Views in Sheets 3
    grid,        \* Grids2DOffsets: the grid, [Curve, cur2d, model] in the view
    bbox,        \* the crop box of the view
    offsets_ft,  \* the offset of each side
    modes_by_side, \* the mode of each side
    call,        \* the last call of set_grid_2d_extents_in_view on the grid
    callPrev,    \* the call before it
    calls,       \* how often it was called
    sheet3,      \* Align Views in Sheets 3: the sheet of one pass of the loop
    note3,       \* what the pass left
    point2,      \* Align Views in Sheets 2: view, viewport and model point
    sheet_pt2,   \* the sheet point computed for them
    run2,        \* Align Views in Sheets 2: the run of the sheet loop
    vp2,         \* a viewport with its target point, script and passes made
    pass2,       \* what the last pass over it left
    loop2        \* Grids2DOffsets: the grids of the views of a run of main()

alignVars == <<view, grids, axis_tol, cls, clsPrev, anchor, anchorPrev, runs, pick3>>
extentVars == <<grid, bbox, offsets_ft, modes_by_side, call, callPrev, calls>>
sheetVars == <<sheet3, note3>>
pointVars == <<point2, sheet_pt2>>
batchVars == <<run2>>
moveVars == <<vp2, pass2>>
loopVars == <<loop2>>
vars == <<alignVars, extentVars, sheetVars, pointVars, batchVars, moveVars, loopVars>>

(***************************************************************************)
(* Inputs                                                                  *)
(***************************************************************************)
MaxGrids == 3
MaxRuns == 2

SeqUpTo(S, n) == UNION {[1..k -> S] : k \in 0..n}

\* a plan view at (10,10,0), the same basis turned by 90 degrees, and a basis
\* turned by the 3-4-5 angle
ViewPlan == View(P3(10, 10, 0), P3(1, 0, 0), P3(0, 1, 0))
ViewTurned == View(P3(0, 0, 0), P3(0, 1, 0), P3(-1, 0, 0))
ViewSkew == View(P3(0, 0, 0), <<Q(3, 5), Q(4, 5), Zero>>, <<Q(-4, 5), Q(3, 5), Zero>>)
Views == {ViewPlan, ViewTurned, ViewSkew}

Tols == {Q(-1, 10), Zero, Q(3, 20), Q(1, 5), One}

\* curves handed to the classifier
ClassCurves ==
    { LineCurve(P3(10, 10, 0), P3(10, 14, 0)),
      LineCurve(P3(10, 10, 0), P3(16, 10, 0)),
      LineCurve(P3(0, 0, 0), P3(3, 4, 0)),
      LineCurve(P3(0, 0, 0), P3(1, 1, 0)),
      LineCurve(P3(0, 0, 0), P3(-2, 1, 0)),
      \* a closed polyline: first and last sample coincide
      Curve(TRUE, <<P3(0, 0, 0), P3(2, 0, 0), P3(2, 2, 0), P3(0, 0, 0)>>,
            TRUE, Samples, P3(0, 0, 0), P3(0, 0, 0), TRUE, FALSE),
      \* tessellation raises, parametric sampling works
      Curve(FALSE, <<>>, TRUE, Samples, P3(0, 0, 0), P3(0, 5, 0), TRUE, FALSE),
      \* tessellation yields one point, Evaluate raises at once, end points work
      Curve(TRUE, <<P3(1, 1, 0)>>, TRUE, 0, P3(1, 1, 0), P3(5, 2, 0), TRUE, FALSE),
      \* Evaluate raises at the fourth sample, end points work
      Curve(FALSE, <<>>, TRUE, 3, P3(0, 0, 0), P3(0, 10, 0), TRUE, FALSE),
      \* Evaluate raises at the fourth sample, end points raise
      Curve(FALSE, <<>>, TRUE, 3, P3(0, 0, 0), P3(0, 10, 0), FALSE, FALSE),
      \* only one sample survives
      Curve(FALSE, <<>>, TRUE, 1, P3(2, 3, 0), P3(2, 9, 0), FALSE, FALSE),
      \* every strategy fails
      Curve(FALSE, <<>>, FALSE, 0, P3(0, 0, 0), P3(0, 1, 0), FALSE, FALSE) }

\* grids of a view handed to the locator
GridV10 == Grid(LineCurve(P3(10, 10, 0), P3(10, 14, 0)))
GridV10b == Grid(LineCurve(P3(10, 12, 0), P3(10, 16, 0)))
GridV12 == Grid(LineCurve(P3(12, 10, 0), P3(12, 14, 0)))
GridH10 == Grid(LineCurve(P3(10, 10, 0), P3(16, 10, 0)))
GridSkew == Grid(LineCurve(P3(10, 10, 0), P3(13, 14, 0)))
GridNoCurve == Grid(None)
AnchorGrids == {GridV10, GridV10b, GridV12, GridH10, GridSkew, GridNoCurve}
AnchorViews == {ViewPlan, ViewTurned}
AnchorTols == {Q(3, 20), Q(1, 5)}

\* no grid is handed to Grids2DOffsets
ExtentIdle ==
    /\ grid = None
    /\ bbox = None
    /\ offsets_ft = None
    /\ modes_by_side = None
    /\ call = None
    /\ callPrev = None
    /\ calls = 0

\* the grid loop is not running
LoopIdle == loop2 = None

\* no viewport is being aligned on its own
MoveIdle ==
    /\ vp2 = None
    /\ pass2 = None

\* the sheet loop is not running
BatchIdle == run2 = None

\* no point is handed to the legacy transform
PointIdle ==
    /\ point2 = None
    /\ sheet_pt2 = None

\* no sheet is handed to Align Views in Sheets 3
SheetIdle ==
    /\ sheet3 = None
    /\ note3 = None

\* the align scripts are not running
AlignIdle ==
    /\ view = None
    /\ grids = <<>>
    /\ axis_tol = Q(3, 20)
    /\ cls = None
    /\ clsPrev = None
    /\ anchor = None
    /\ anchorPrev = None
    /\ runs = 0
    /\ pick3 = None

(***************************************************************************)
(* Classifier calls                                                        *)
(***************************************************************************)
InitClassify ==
    /\ view \in Views
    /\ grids \in {<<Grid(c)>> : c \in ClassCurves}
    /\ axis_tol = Q(3, 20)
    /\ cls = None
    /\ clsPrev = None
    /\ anchor = None
    /\ anchorPrev = None
    /\ runs = 0
    /\ pick3 = None
    /\ ExtentIdle
    /\ SheetIdle
    /\ PointIdle
    /\ BatchIdle
    /\ MoveIdle
    /\ LoopIdle

\* one call classify_grid_orientation(view, curve, t)
Classify(t) ==
    /\ axis_tol' = t
    /\ cls' = [tol |-> t, res |-> classify_grid_orientation(view, grids[1].Curve, t)]
    /\ clsPrev' = cls
    /\ UNCHANGED <<view, grids, anchor, anchorPrev, runs, pick3, extentVars, sheetVars, pointVars, batchVars, moveVars, loopVars>>

NextClassify == \E t \in Tols : Classify(t)

SpecClassify == InitClassify /\ [][NextClassify]_vars

(***************************************************************************)
(* Locator runs                                                            *)
(***************************************************************************)
InitAnchor ==
    /\ view \in AnchorViews
    /\ grids \in SeqUpTo(AnchorGrids, MaxGrids)
    /\ axis_tol \in AnchorTols
    /\ cls = None
    /\ clsPrev = None
    /\ anchor = None
    /\ anchorPrev = None
    /\ runs = 0
    /\ pick3 = None
    /\ ExtentIdle
    /\ SheetIdle
    /\ PointIdle
    /\ BatchIdle
    /\ MoveIdle
    /\ LoopIdle

\* one call find_bottom_left_grid_intersection(doc, view, axis_tol)
FindAnchor ==
    /\ runs < MaxRuns
    /\ runs' = runs + 1
    /\ anchorPrev' = anchor
    /\ anchor' = find_bottom_left_grid_intersection(view, grids, axis_tol)
    /\ UNCHANGED <<view, grids, axis_tol, cls, clsPrev, pick3, extentVars, sheetVars, pointVars, batchVars, moveVars, loopVars>>

\* the selection loop of Align Views in Sheets 3 over the grids of a sheet
PickGrids3 ==
    /\ pick3 = None
    /\ pick3' = PickLoop3(grids, Len(grids))
    /\ UNCHANGED <<view, grids, axis_tol, cls, clsPrev, anchor, anchorPrev, runs, extentVars, sheetVars, pointVars, batchVars, moveVars, loopVars>>

NextAnchor == FindAnchor \/ PickGrids3

SpecAnchor == InitAnchor /\ [][NextAnchor]_vars

(***************************************************************************)
(* Extent calls of Grids2DOffsets                                          *)
(***************************************************************************)
MaxCalls == 2

Reversed(c) == [c EXCEPT !.p0 = c.p1, !.p1 = c.p0]

\* grid.Curve: the line of the scenario and its reverse, a 3-4-5 diagonal,
\* a line seen end-on in plan, a degenerate line, an arc, a closed arc (its
\* end points coincide), a line that misses
\* the box, one that touches a corner, one along the top edge, one rising
\* out of the plane, and one whose right-edge hit is its point nearest to
\* the center of the box
ExtentCurves ==
    { GLine(P3(0, 0, 0), P3(10, 0, 0)),
      GLine(P3(10, 0, 0), P3(0, 0, 0)),
      GLine(P3(0, 0, 0), P3(6, 8, 0)),
      GLine(P3(5, 0, 0), P3(5, 0, 3)),
      GLine(P3(1, 1, 0), P3(1, 1, 0)),
      GArc(P3(0, 0, 0), P3(10, 0, 0)),
      GArc(P3(1, 1, 0), P3(1, 1, 0)),
      GLine(P3(0, 9, 0), P3(10, 9, 0)),
      GLine(P3(4, 8, 0), P3(12, 2, 0)),
      GLine(P3(0, 5, 0), P3(10, 5, 0)),
      GLine(P3(0, 0, 0), P3(3, 0, 4)),
      GLine(P3(4, -7, 0), P3(12, -1, 0)) }

\* the view-specific curve before the first call: none, or one running as
\* grid.Curve or against it; the model curve in the view, when the host
\* lists one, is the grid's own curve
GridsOn(c) ==
    { [Curve |-> c, cur2d |-> None, model |-> <<>>],
      [Curve |-> c, cur2d |-> None, model |-> <<c>>],
      [Curve |-> c, cur2d |-> c, model |-> <<c>>],
      [Curve |-> c, cur2d |-> Reversed(c), model |-> <<c>>] }

ExtentGrids == UNION {GridsOn(c) : c \in ExtentCurves}

\* the box with corners (2,-5) and (8,5), and the same box turned about its
\* center by the 3-4-5 angle
BoxPlain == BBox(P3(2, -5, 0), P3(8, 5, 0), P3(0, 0, 0), P3(1, 0, 0), P3(0, 1, 0))
BoxTurned ==
    BBox(P3(-3, -5, -1), P3(3, 5, 1), P3(5, 0, 0),
         <<Q(3, 5), Q(4, 5), Zero>>, <<Q(-4, 5), Q(3, 5), Zero>>)
Boxes == {BoxPlain, BoxTurned}

AllSides(x) == [s \in Sides |-> x]

\* a dict that names two sides only, and a dict of other spellings of the modes
OffsetsLeftRight == [s \in {"left", "right"} |-> IF s = "left" THEN One ELSE I(2)]
ModesSpelled ==
    [s \in {"left", "right", "top"} |->
        IF s = "left" THEN "Inside" ELSE IF s = "right" THEN " outside " ELSE ""]

\* <<offsets_ft, modes_by_side>> of a run
Settings ==
    { <<AllSides(Zero), AllSides("outside")>>,
      <<AllSides(One), AllSides("outside")>>,
      <<AllSides(I(7)), AllSides("outside")>>,
      <<AllSides(One), AllSides("inside")>>,
      <<AllSides(I(3)), AllSides("inside")>>,
      <<AllSides(I(7)), AllSides("inside")>>,
      <<OffsetsLeftRight, ModesSpelled>> }

\* the host's answers during one call
Hosts == [setModel : BOOLEAN, setLine : BOOLEAN, primary : BOOLEAN, fallback : BOOLEAN]

InitExtent ==
    /\ AlignIdle
    /\ grid \in ExtentGrids
    /\ bbox \in Boxes
    /\ \E setting \in Settings :
          /\ offsets_ft = setting[1]
          /\ modes_by_side = setting[2]
    /\ call = None
    /\ callPrev = None
    /\ calls = 0
    /\ SheetIdle
    /\ PointIdle
    /\ BatchIdle
    /\ MoveIdle
    /\ LoopIdle

\* what is kept of a call: the view-specific curve before it and its outcome
Called(was, out) == [was |-> was, out |-> out]

\* what is kept of the call before: what it returned and the curve it left
Earlier(c) == IF c = None THEN None ELSE [ok |-> c.out.ok, cur2d |-> c.out.cur2d]

Apply(out) ==
    /\ call' = Called(grid.cur2d, out)
    /\ callPrev' = Earlier(call)
    /\ grid' = [grid EXCEPT !.cur2d = out.cur2d]

\* one call set_grid_2d_extents_in_view(doc, grid, view, rect_corners,
\* rect_center, offsets_ft, modes_by_side) from the loop of main(), with
\* whatever the host answers
SetGridExtents ==
    /\ calls < MaxCalls
    /\ calls' = calls + 1
    /\ \E rect \in {bbox_corners_2d(bbox)} :
         \E geo \in {Compute(grid, rect, offsets_ft, modes_by_side)} :
            \E host \in Hosts :
               Apply(Conclude(grid, rect, offsets_ft, modes_by_side, host, geo))
    /\ UNCHANGED <<bbox, offsets_ft, modes_by_side, alignVars, sheetVars, pointVars, batchVars, moveVars, loopVars>>

NextExtent == SetGridExtents

SpecExtent == InitExtent /\ [][NextExtent]_vars

(***************************************************************************)
(* The grid loop of Grids2DOffsets                                         *)
(***************************************************************************)
MaxPairs == 2

\* the host carries out every call
HostFine == [setModel |-> TRUE, setLine |-> TRUE, primary |-> TRUE, fallback |-> TRUE]

\* grids in views: a line through the box; the same line running the other
\* way in a view that holds a 2D curve against it, where the first attempt
\* to store is refused; an arc; a line for which the host refuses the
\* view-specific extent; a diagonal whose End-0 bubble the host refuses to
\* change; a line that misses the box, whose End-1 bubble the host refuses
\* to change
PairsInViews ==
    { GridInView([Curve |-> GLine(P3(0, 0, 0), P3(10, 0, 0)), cur2d |-> None, model |-> <<>>],
                 HostFine, <<TRUE, TRUE>>, <<TRUE, TRUE>>),
      GridInView([Curve |-> GLine(P3(10, 0, 0), P3(0, 0, 0)),
                  cur2d |-> GLine(P3(0, 0, 0), P3(10, 0, 0)),
                  model |-> <<GLine(P3(10, 0, 0), P3(0, 0, 0))>>],
                 [HostFine EXCEPT !.primary = FALSE], <<FALSE, FALSE>>, <<TRUE, TRUE>>),
      GridInView([Curve |-> GArc(P3(0, 0, 0), P3(10, 0, 0)),
                  cur2d |-> GArc(P3(0, 0, 0), P3(10, 0, 0)), model |-> <<>>],
                 HostFine, <<TRUE, FALSE>>, <<TRUE, TRUE>>),
      GridInView([Curve |-> GLine(P3(0, 5, 0), P3(10, 5, 0)), cur2d |-> None, model |-> <<>>],
                 [HostFine EXCEPT !.setLine = FALSE], <<FALSE, TRUE>>, <<TRUE, TRUE>>),
      GridInView([Curve |-> GLine(P3(0, 0, 0), P3(6, 8, 0)), cur2d |-> None, model |-> <<>>],
                 HostFine, <<FALSE, TRUE>>, <<FALSE, TRUE>>),
      GridInView([Curve |-> GLine(P3(0, 9, 0), P3(10, 9, 0)), cur2d |-> None, model |-> <<>>],
                 HostFine, <<TRUE, TRUE>>, <<TRUE, FALSE>>) }

\* form.end_choice: the four choices of the form, and a text END_MAP lacks
EndChoices == END_CHOICES \cup {"Both"}

\* lines 1096-1137: the grids of the views, none passed yet; first keeps them
\* as they were. The offsets are 7 on every side, inside, which carries the
\* two ends of a line through the box past each other
InitLoop ==
    /\ AlignIdle
    /\ SheetIdle
    /\ PointIdle
    /\ BatchIdle
    /\ MoveIdle
    /\ grid = None
    /\ call = None
    /\ callPrev = None
    /\ calls = 0
    /\ bbox = BoxPlain
    /\ offsets_ft = AllSides(I(7))
    /\ modes_by_side = AllSides("inside")
    /\ \E n \in 1..MaxPairs :
         \E pairs \in [1..n -> PairsInViews], choice \in EndChoices :
            loop2 = [pairs |-> pairs, first |-> pairs, todo |-> 1..n,
                     end_choice |-> choice, grids_modified |-> 0]

\* one pass of the loop of line 1138, for the grids taken in any order
ProcessGrid ==
    /\ loop2 # None
    /\ \E i \in loop2.todo :
         \E rect \in {bbox_corners_2d(bbox)} :
            loop2' = Processed(loop2, i,
                               GridLoopBody(loop2.pairs[i], rect, offsets_ft,
                                            modes_by_side, loop2.end_choice))
    /\ UNCHANGED <<alignVars, extentVars, sheetVars, pointVars, batchVars, moveVars>>

NextLoop == ProcessGrid

SpecLoop == InitLoop /\ [][NextLoop]_vars

(***************************************************************************)
(* Sheet passes of Align Views in Sheets 3                                 *)
(***************************************************************************)
\* the rotations a viewport may report: the four the dispatch names (the
\* half turn under its two names) and one it does not
Rotations ==
    {"None", "NinetyDegreesCounterclockwise", "Clockwise", "Halfway",
     "OneHundredEightyDegrees", "Unknown"}

\* crop boxes about the intersection (10,10,0) of GridV10 and GridH10: one
\* centered at (7,6), one centered at the intersection, one that leaves the
\* intersection outside
CropOff == <<P3(4, 2, 0), P3(10, 10, 0)>>
CropOn == <<P3(5, 5, 0), P3(15, 15, 0)>>
CropAway == <<P3(0, 0, 0), P3(5, 5, 0)>>

ViewsPlaced ==
    {PlacedView(TRUE, TRUE, c[1], c[2], k, Viewport(P3(1, 2, 0), r)) :
        c \in {CropOff, CropOn}, k \in {1, 2}, r \in Rotations}
    \cup
    { PlacedView(TRUE, FALSE, CropOff[1], CropOff[2], 1, Viewport(P3(0, 0, 0), "Clockwise")),
      PlacedView(TRUE, TRUE, CropAway[1], CropAway[2], 1, Viewport(P3(0, 0, 0), "None")),
      PlacedView(FALSE, FALSE, CropOn[1], CropOn[2], 1, Viewport(P3(0, 0, 0), "None")),
      PlacedView(TRUE, TRUE, CropOn[1], CropOn[2], 1, None) }

\* the grids of the views of the sheet, in the order the dict yields them
GridLists3 ==
    { <<>>, <<GridV10>>, <<GridH10, GridV10>>, <<GridV10b, GridH10>>,
      <<GridV12, GridSkew, GridV10, GridNoCurve, GridH10>> }

Sheets3 ==
    [grids : GridLists3, views : SeqUpTo(ViewsPlaced, 1), createOK : BOOLEAN]
    \cup
    { [grids |-> <<GridH10, GridV10>>,
       views |-> <<PlacedView(TRUE, TRUE, CropAway[1], CropAway[2], 1,
                              Viewport(P3(0, 0, 0), "None")), v>>,
       createOK |-> TRUE] : v \in ViewsPlaced }

InitSheet3 ==
    /\ AlignIdle
    /\ ExtentIdle
    /\ PointIdle
    /\ BatchIdle
    /\ MoveIdle
    /\ LoopIdle
    /\ sheet3 \in Sheets3
    /\ note3 = None

\* one pass of the loop over the selected sheets
PlaceText3 ==
    /\ note3 = None
    /\ note3' = place_text_on_sheet(sheet3)
    /\ UNCHANGED <<sheet3, alignVars, extentVars, pointVars, batchVars, moveVars, loopVars>>

NextSheet3 == PlaceText3

SpecSheet3 == InitSheet3 /\ [][NextSheet3]_vars

(***************************************************************************)
(* The legacy sheet point of Align Views in Sheets 2                       *)
(***************************************************************************)
\* crop boxes in the plane of the view, scales, box centers on the sheet and
\* model points (anchors lie in the plane of the view; the function takes any)
CropBoxes2 == {<<P3(0, 0, 0), P3(10, 8, 0)>>, <<P3(-4, -2, -1), P3(7, 4, 3)>>}
Scales2 == {1, 2, 100}
BoxCenters2 == {P3(0, 0, 0), P3(3, 1, 0)}
ModelPoints2 ==
    {P3(0, 0, 0), P3(10, 10, 0), P3(14, 13, 0), P3(-5, 7, 0), P3(4, 3, 9),
     <<Q(1, 2), Q(-3, 4), Zero>>}

Points2 ==
    {[view |-> CroppedView(v, c[1], c[2], k), viewport |-> Viewport(b, "None"),
      model_point |-> p] :
        v \in Views, c \in CropBoxes2, k \in Scales2, b \in BoxCenters2,
        p \in ModelPoints2}

InitPoint2 ==
    /\ AlignIdle
    /\ ExtentIdle
    /\ SheetIdle
    /\ BatchIdle
    /\ MoveIdle
    /\ LoopIdle
    /\ point2 \in Points2
    /\ sheet_pt2 = None

\* the legacy branch of the transform selection, lines 448-449
SheetPoint2 ==
    /\ sheet_pt2 = None
    /\ sheet_pt2' = get_sheet_point_from_model_point_legacy(
                        point2.view, point2.viewport, point2.model_point)
    /\ UNCHANGED <<point2, alignVars, extentVars, sheetVars, batchVars, moveVars, loopVars>>

NextPoint2 == SheetPoint2

SpecPoint2 == InitPoint2 /\ [][NextPoint2]_vars

(***************************************************************************)
(* The sheet loop of Align Views in Sheets 2                               *)
(***************************************************************************)
MaxSheets == 2
MaxVports == 2

\* what the host answers before the transaction of a sheet is started
SheetChecks ==
    {"ok", "No viewports", "Missing/Multiple title blocks or invalid bbox",
     "Invalid corner selection"}

\* what happens in the body of the viewport loop: the viewport is moved; it
\* is filtered out (no view, not a plan); its view has no anchor; computing
\* the sheet point raises (inside the try of line 444); a call outside that
\* try raises (find_bottom_left_grid_intersection, GetBoxCenter, SetBoxCenter)
ViewportCases ==
    {"aligned", "filtered", "no anchor", "transform raises", "raises"}

\* the two scripts with this loop. In Align Views in Sheets the sheet point
\* is computed outside any try of its own but for NotImplementedError, which
\* is caught and recorded ("unsupported"); every other exception is "raises"
Scripts2 == {"Align Views in Sheets", "Align Views in Sheets 2"}
CasesOf(script) ==
    IF script = "Align Views in Sheets"
    THEN {"aligned", "filtered", "no anchor", "unsupported", "raises"}
    ELSE ViewportCases

\* the text of a skipped entry in the script of the run
Said(what) ==
    IF run2.script = "Align Views in Sheets 2" THEN what
    ELSE CASE what = "Missing/Multiple title blocks or invalid bbox" ->
                "Missing/Multiple title blocks (strict mode) or invalid bbox"
           [] what = "No eligible viewports found" -> "No eligible viewports"
           [] what = "Runtime Error" -> "Error"
           [] OTHER -> what

InitBatch2 ==
    /\ AlignIdle
    /\ ExtentIdle
    /\ SheetIdle
    /\ PointIdle
    /\ MoveIdle
    /\ LoopIdle
    /\ \E n \in 1..MaxSheets, script \in Scripts2 :
         run2 = [script |-> script,
                 pc |-> "sheet", sheets |-> n, sheet |-> 1, vports |-> 0, vp |-> 0,
                 aligned_any |-> FALSE, moved |-> {}, committed |-> {},
                 skipped |-> <<>>, processed_views |-> <<>>, processed |-> 0,
                 listed |-> {}, tried |-> {}, failed |-> {}, raised |-> {},
                 moved_on |-> {}, txlog |-> <<>>]

\* lines 412-433: the next sheet, up to the start of its viewport loop
OpenSheet(check, n) ==
    IF n = 0 \/ check # "ok"
    THEN [run2 EXCEPT !.skipped = Append(@, <<run2.sheet,
                                     IF n = 0 THEN "No viewports" ELSE Said(check)>>),
                      !.failed = @ \cup {<<run2.sheet, 0>>},
                      !.sheet = @ + 1]
    ELSE [run2 EXCEPT !.pc = "vp", !.vports = n, !.vp = 1,
                      !.aligned_any = FALSE, !.moved = {},
                      !.txlog = Append(@, <<run2.sheet, "Start">>),
                      !.listed = @ \cup {<<run2.sheet, j>> : j \in 1..n}]

BeginSheet2 ==
    /\ run2 # None
    /\ run2.pc = "sheet"
    /\ run2.sheet <= run2.sheets
    /\ \E check \in SheetChecks, n \in 0..MaxVports : run2' = OpenSheet(check, n)
    /\ UNCHANGED <<alignVars, extentVars, sheetVars, pointVars, moveVars, loopVars>>

\* lines 471-473 (lines 550-552 of Align Views in Sheets): the except of the
\* sheet's block
Excepted ==
    [run2 EXCEPT !.skipped = Append(@, <<run2.sheet, Said("Runtime Error")>>),
                 !.raised = @ \cup {run2.sheet},
                 !.txlog = Append(@, <<run2.sheet, "RollBack">>),
                 !.moved = {},
                 !.pc = "sheet", !.sheet = @ + 1]

\* lines 434-464 for one viewport (lines 520-542 of Align Views in Sheets,
\* which keeps no list of views), with the except of the sheet's block
Viewported(case) ==
    CASE case = "aligned" ->
           [run2 EXCEPT !.moved = @ \cup {<<run2.sheet, run2.vp>>},
                        !.aligned_any = TRUE,
                        !.moved_on = @ \cup {run2.sheet},
                        !.processed_views =
                            IF run2.script = "Align Views in Sheets 2"
                            THEN Append(@, <<run2.sheet, run2.vp>>) ELSE @,
                        !.tried = @ \cup {<<run2.sheet, run2.vp>>},
                        !.vp = @ + 1]
      [] case \in {"filtered", "no anchor"} ->
           [run2 EXCEPT !.tried = @ \cup {<<run2.sheet, run2.vp>>},
                        !.vp = @ + 1]
      [] case \in {"transform raises", "unsupported"} ->
           [run2 EXCEPT !.skipped = Append(@, <<run2.sheet,
                                       IF case = "unsupported"
                                       THEN "Viewport transform unsupported"
                                       ELSE "Error calculating transform">>),
                        !.tried = @ \cup {<<run2.sheet, run2.vp>>},
                        !.failed = @ \cup {<<run2.sheet, run2.vp>>},
                        !.vp = @ + 1]
      [] OTHER ->
           [Excepted EXCEPT !.tried = @ \cup {<<run2.sheet, run2.vp>>},
                            !.failed = @ \cup {<<run2.sheet, run2.vp>>}]

AlignViewport2 ==
    /\ run2 # None
    /\ run2.pc = "vp"
    /\ run2.vp <= run2.vports
    /\ \E case \in CasesOf(run2.script) : run2' = Viewported(case)
    /\ UNCHANGED <<alignVars, extentVars, sheetVars, pointVars, moveVars, loopVars>>

\* lines 466-470 (lines 544-549 of Align Views in Sheets, with its counter):
\* the end of the sheet's block. commitOK: t.Commit() returns; when it raises
\* the except of the block follows
ClosedAnyway(commitOK) ==
    [run2 EXCEPT !.committed = @ \cup run2.moved, !.moved = {},
                 !.processed = IF run2.script = "Align Views in Sheets"
                               THEN @ + 1 ELSE @,
                 !.txlog = Append(@, <<run2.sheet, "Commit">>),
                 !.pc = "sheet", !.sheet = @ + 1]

Closed(commitOK) ==
    IF run2.aligned_any
    THEN IF commitOK
         THEN [run2 EXCEPT !.committed = @ \cup run2.moved, !.moved = {},
                           !.processed = IF run2.script = "Align Views in Sheets"
                                         THEN @ + 1 ELSE @,
                           !.txlog = Append(@, <<run2.sheet, "Commit">>),
                           !.pc = "sheet", !.sheet = @ + 1]
         ELSE Excepted
    ELSE [run2 EXCEPT !.skipped = Append(@, <<run2.sheet, Said("No eligible viewports found")>>),
                      !.txlog = Append(@, <<run2.sheet, "RollBack">>),
                      !.moved = {}, !.pc = "sheet", !.sheet = @ + 1]

CloseSheet2 ==
    /\ run2 # None
    /\ run2.pc = "vp"
    /\ run2.vp > run2.vports
    /\ \E commitOK \in BOOLEAN : run2' = Closed(commitOK)
    /\ UNCHANGED <<alignVars, extentVars, sheetVars, pointVars, moveVars, loopVars>>

\* line 474, and the report that follows
Assimilate2 ==
    /\ run2 # None
    /\ run2.pc = "sheet"
    /\ run2.sheet > run2.sheets
    /\ run2' = [run2 EXCEPT !.pc = "done"]
    /\ UNCHANGED <<alignVars, extentVars, sheetVars, pointVars, moveVars, loopVars>>

NextBatch2 == BeginSheet2 \/ AlignViewport2 \/ CloseSheet2 \/ Assimilate2

SpecBatch2 == InitBatch2 /\ [][NextBatch2]_vars

(***************************************************************************)
(* One viewport under the two align scripts, pass after pass               *)
(***************************************************************************)
MaxPasses == 2

\* the anchor's place from the box center under the host's transform
\* (None: GetTransform or OfPoint raises)
Images2 == {P3(0, 0, 0), P3(-2, 1, 0), <<Q(1, 2), Q(3, 4), I(5)>>, None}
\* target_pt: the corner of the title block plus the offsets, Z = 0.0
Targets2 == {P3(0, 0, 0), P3(1, 2, 0)}

Viewports2 ==
    {[exposes |-> e, image |-> i, cropOK |-> k,
      view |-> CroppedView(v, P3(-4, -2, -1), P3(7, 4, 3), s),
      anchor |-> a, center |-> c] :
        e \in BOOLEAN, i \in Images2, k \in BOOLEAN, v \in {ViewPlan, ViewTurned},
        s \in {1, 2}, a \in {P3(10, 10, 0), P3(4, 3, 9)}, c \in {P3(3, 1, 0), P3(0, 0, 2)}}

InitMove ==
    /\ AlignIdle
    /\ ExtentIdle
    /\ SheetIdle
    /\ PointIdle
    /\ BatchIdle
    /\ LoopIdle
    /\ \E vp \in Viewports2, t \in Targets2, script \in {"Align Views in Sheets", "Align Views in Sheets 2"} :
         vp2 = [vp |-> vp, target_pt |-> t, script |-> script, passes |-> 0]
    /\ pass2 = None

\* one run of the script over the viewport: the pass, and SetBoxCenter
AlignViewport ==
    /\ vp2 # None
    /\ vp2.passes < MaxPasses
    /\ \E out \in {IF vp2.script = "Align Views in Sheets 2"
                   THEN AlignOne2(vp2.vp, vp2.target_pt)
                   ELSE AlignOne1(vp2.vp, vp2.target_pt)} :
         /\ pass2' = out
         /\ vp2' = [vp2 EXCEPT !.vp.center = out.center, !.passes = @ + 1]
    /\ UNCHANGED <<alignVars, extentVars, sheetVars, pointVars, batchVars, loopVars>>

NextMove == AlignViewport

SpecMove == InitMove /\ [][NextMove]_vars

(***************************************************************************)
(* Properties of the classifier                                            *)
(***************************************************************************)
\* the samples of the classified curve
SampledNow == curve_points_in_view_xy(view, grids[1].Curve)
\* first-to-last difference of the samples pts: <<|dx|, |dy|, dx^2 + dy^2>>
Spread(pts) ==
    <<RAbs(RSub(pts[Len(pts)][1], pts[1][1])),
      RAbs(RSub(pts[Len(pts)][2], pts[1][2])),
      RAdd(RSq(RSub(pts[Len(pts)][1], pts[1][1])),
           RSq(RSub(pts[Len(pts)][2], pts[1][2])))>>
\* the samples give a direction: two or more of them, first and last apart
HasDirection(pts) == Len(pts) >= 2 /\ ~ RBelowInvSq(Spread(pts)[3], MagTolInv)
\* a > b and (a - b) > tol for the components a = p / mag, b = q / mag of the
\* unit direction: computed from the unit vector itself when mag is rational,
\* and from the squares otherwise
Leads(p, q, m2, tol) ==
    IF RIsSquare(m2)
    THEN /\ RGt(RDiv(p, RSqrt(m2)), RDiv(q, RSqrt(m2)))
         /\ RGt(RSub(RDiv(p, RSqrt(m2)), RDiv(q, RSqrt(m2))), tol)
    ELSE /\ RGt(p, q)
         /\ \/ RLt(tol, Zero)
            \/ RGt(RSq(RSub(p, q)), RMul(RSq(tol), m2))
\* |ay - ax| is exactly the tolerance
AtTolerance(p, q, m2, tol) ==
    /\ RIsSquare(m2)
    /\ RAbs(RSub(RDiv(p, RSqrt(m2)), RDiv(q, RSqrt(m2)))) = tol

\* C1: classify_grid_orientation answers exactly one of vertical, horizontal
\* and unclassified: vertical iff ay > ax and ay - ax > axis_tol, horizontal
\* iff ax > ay and ax - ay > axis_tol, unclassified in every other case, also
\* when |ay - ax| equals axis_tol.
C1_Ternary ==
    cls # None =>
      \A pts \in {SampledNow} :
        /\ cls.res[1] \in {"vertical", "horizontal", NoOrient}
        /\ ~ HasDirection(pts) => cls.res[1] = NoOrient
        /\ HasDirection(pts) =>
             \A d \in {Spread(pts)} :
               /\ cls.res[1] = "vertical" <=> Leads(d[2], d[1], d[3], cls.tol)
               /\ cls.res[1] = "horizontal" <=> Leads(d[1], d[2], d[3], cls.tol)
               /\ ~ (Leads(d[2], d[1], d[3], cls.tol) /\ Leads(d[1], d[2], d[3], cls.tol))
               /\ AtTolerance(d[1], d[2], d[3], cls.tol) => cls.res[1] = NoOrient

\* a call whose direction has |ay - ax| exactly equal to the tolerance
C1_Witness ==
    /\ cls # None
    /\ HasDirection(SampledNow)
    /\ RGt(cls.tol, Zero)
    /\ AtTolerance(Spread(SampledNow)[1], Spread(SampledNow)[2],
                   Spread(SampledNow)[3], cls.tol)
    /\ cls.res[1] = NoOrient

\* C2: for the same samples and tolerances t1 <= t2, unclassified at t1 gives
\* unclassified at t2, and a class at t2 is the class at t1.
C2_Monotonic ==
    (cls # None /\ clsPrev # None) =>
      \A lo \in {cls, clsPrev} : \A hi \in {cls, clsPrev} :
        RLe(lo.tol, hi.tol) =>
          /\ lo.res[1] = NoOrient => hi.res[1] = NoOrient
          /\ hi.res[1] # NoOrient => lo.res[1] = hi.res[1]

\* the same curve classified at a lower and then at a higher tolerance, the
\* class lost in between
C2_Witness ==
    /\ cls # None
    /\ clsPrev # None
    /\ RLt(clsPrev.tol, cls.tol)
    /\ clsPrev.res[1] = "vertical"
    /\ cls.res[1] = NoOrient

\* the points a strategy appends when it runs to its end
PointsOf(strategy, curve) ==
    CASE strategy = "tessellation" ->
           [i \in 1..Len(curve.tess) |-> to_view_xy(view, curve.tess[i])]
      [] strategy = "parametric" ->
           [i \in 1..Samples |->
              to_view_xy(view, Evaluate(curve, Q(i - 1, Samples - 1)))]
      [] strategy = "endpoints" ->
           <<to_view_xy(view, curve.p0), to_view_xy(view, curve.p1)>>
\* whether a strategy runs to its end on the curve
Succeeds(strategy, curve) ==
    CASE strategy = "tessellation" -> TessWorks(curve)
      [] strategy = "parametric" -> ParamWorks(curve, Samples)
      [] strategy = "endpoints" -> EndsWork(curve)
AllFail(curve) ==
    \A strategy \in {"tessellation", "parametric", "endpoints"} : ~ Succeeds(strategy, curve)

\* C16 as claimed: when each of the three strategies fails on the curve, the
\* samples returned are the empty sequence (and the classifier, which got
\* them, answers (None, None, None)), also when a strategy had projected
\* points before it failed.
C16_AsClaimed ==
    cls # None /\ AllFail(grids[1].Curve) =>
      /\ SampledNow = <<>>
      /\ cls.res = <<NoOrient, None, None>>

\* what holds of the same calls: the samples returned are the ones the
\* parametric loop had appended before Evaluate raised
C16_Kept ==
    cls # None /\ AllFail(grids[1].Curve) =>
      /\ Len(SampledNow) = (IF grids[1].Curve.parOK THEN grids[1].Curve.evalOK ELSE 0)
      /\ \A i \in 1..Len(SampledNow) :
           SampledNow[i] = PointsOf("parametric", grids[1].Curve)[i]

\* every strategy fails, the parametric one after three samples, and three
\* points are returned
C16_Witness ==
    /\ cls # None
    /\ AllFail(grids[1].Curve)
    /\ Len(SampledNow) = 3
    /\ cls.res[2] # None

\* C19 as claimed: the strategies are entered in the order tessellation,
\* parametric, endpoints, a later one only after each earlier one failed, and
\* the samples returned are the points of the one strategy that succeeded:
\* the two projected end points, End-0 then End-1, when that is the last one.
C19_AsClaimed ==
    cls # None =>
      \A tried \in {StrategiesTried(grids[1].Curve)} :
        /\ \E n \in 1..3 : tried = SubSeq(<<"tessellation", "parametric", "endpoints">>, 1, n)
        /\ \A n \in 1..(Len(tried) - 1) : ~ Succeeds(tried[n], grids[1].Curve)
        /\ Len(tried) < 3 => Succeeds(tried[Len(tried)], grids[1].Curve)
        /\ Succeeds(tried[Len(tried)], grids[1].Curve) =>
             SampledNow = PointsOf(tried[Len(tried)], grids[1].Curve)

\* what holds of every call: the order, and the samples returned ending with
\* the points of the strategy that succeeded
C19_Order ==
    cls # None =>
      \A tried \in {StrategiesTried(grids[1].Curve)} :
        /\ \E n \in 1..3 : tried = SubSeq(<<"tessellation", "parametric", "endpoints">>, 1, n)
        /\ \A n \in 1..(Len(tried) - 1) : ~ Succeeds(tried[n], grids[1].Curve)
        /\ Len(tried) < 3 => Succeeds(tried[Len(tried)], grids[1].Curve)
        /\ Succeeds(tried[Len(tried)], grids[1].Curve) =>
             \A pts \in {PointsOf(tried[Len(tried)], grids[1].Curve)} :
               /\ Len(SampledNow) >= Len(pts)
               /\ SubSeq(SampledNow, Len(SampledNow) - Len(pts) + 1, Len(SampledNow)) = pts
               /\ Len(tried) < 3 => SampledNow = pts

\* the end points succeed after the parametric loop had appended three
\* samples: five points are returned
C19_Witness ==
    /\ cls # None
    /\ StrategiesTried(grids[1].Curve) = <<"tessellation", "parametric", "endpoints">>
    /\ EndsWork(grids[1].Curve)
    /\ Len(SampledNow) = 5

\* the samples are degenerate: one point, or first and last closer than 1e-9
Degenerate(pts) == Len(pts) >= 1 /\ ~ HasDirection(pts)
\* m is the arithmetic mean of coordinate k of the samples
IsMean(m, pts, k) == RMul(m, I(Len(pts))) = RSum([i \in 1..Len(pts) |-> pts[i][k]])

\* C20: for samples that are degenerate the classifier returns (None, mean x,
\* mean y), the means taken over all samples; for no samples it returns
\* (None, None, None); neither result makes the grid a vertical or a
\* horizontal candidate.
C20_Degenerate ==
    cls # None =>
      \A pts \in {SampledNow} :
        /\ pts = <<>> => cls.res = <<NoOrient, None, None>>
        /\ Degenerate(pts) =>
             /\ cls.res[1] = NoOrient
             /\ IsMean(cls.res[2], pts, 1)
             /\ IsMean(cls.res[3], pts, 2)
        /\ pts = <<>> \/ Degenerate(pts) =>
             /\ vertical_candidates(<<cls.res>>) = <<>>
             /\ horizontal_candidates(<<cls.res>>) = <<>>

\* a closed curve: four samples, the first and the last the same point, and
\* means that are not the mean of the two
C20_Witness ==
    /\ cls # None
    /\ Len(SampledNow) = 4
    /\ Degenerate(SampledNow)
    /\ cls.res[1] = NoOrient
    /\ cls.res[2] # SampledNow[1][1]

(***************************************************************************)
(* Properties of the locator                                               *)
(***************************************************************************)
\* the grids of one class among the classified grids cl
OfClass(cl, orient) == {n \in DOMAIN cl : cl[n] # None /\ cl[n][1] = orient}
\* i is the first grid of the set S with the least coordinate k
FirstLeast(cl, S, k, i) ==
    /\ i \in S
    /\ \A j \in S : RLe(cl[i][k], cl[j][k])
    /\ \A j \in S : cl[j][k] = cl[i][k] => i <= j
\* origin + x * right + y * up
Lifted(x, y) ==
    <<RAdd(view.Origin[1],
           RAdd(RMul(x, view.RightDirection[1]), RMul(y, view.UpDirection[1]))),
      RAdd(view.Origin[2],
           RAdd(RMul(x, view.RightDirection[2]), RMul(y, view.UpDirection[2]))),
      RAdd(view.Origin[3],
           RAdd(RMul(x, view.RightDirection[3]), RMul(y, view.UpDirection[3])))>>

\* C3: the anchor is origin + x_left * right + y_bot * up, x_left the least
\* mean x of the grids classified vertical and y_bot the least mean y of the
\* grids classified horizontal; a vertical grid at view x = 0 and a
\* horizontal grid at view y = 0 in the basis at (10,10,0) give (10,10,0).
C3_Anchor ==
    /\ (runs >= 1 /\ anchor.pt # None) =>
         \A cl \in {Classified(view, grids, axis_tol)} :
           \E i \in OfClass(cl, "vertical") : \E j \in OfClass(cl, "horizontal") :
             /\ \A k \in OfClass(cl, "vertical") : RLe(cl[i][2], cl[k][2])
             /\ \A k \in OfClass(cl, "horizontal") : RLe(cl[j][3], cl[k][3])
             /\ anchor.pt = Lifted(cl[i][2], cl[j][3])
    /\ (runs >= 1 /\ view = ViewPlan /\ grids = <<GridV10, GridH10>>) =>
         anchor.pt = P3(10, 10, 0)

C3_Witness ==
    /\ runs >= 1
    /\ view = ViewPlan
    /\ grids = <<GridV10, GridH10>>
    /\ Classified(view, grids, axis_tol) =
         <<(<<"vertical", Zero, I(2)>>), (<<"horizontal", I(3), Zero>>)>>
    /\ anchor.pt = P3(10, 10, 0)

\* C4: no anchor exactly when no grid is classified vertical or no grid is
\* classified horizontal (a view without grids included); a point otherwise.
C4_NoAnchor ==
    runs >= 1 =>
      \A cl \in {Classified(view, grids, axis_tol)} :
        anchor.pt = None <=>
          (OfClass(cl, "vertical") = {} \/ OfClass(cl, "horizontal") = {})

\* grids of one class only: no anchor
C4_Witness ==
    /\ runs >= 1
    /\ OfClass(Classified(view, grids, axis_tol), "vertical") # {}
    /\ OfClass(Classified(view, grids, axis_tol), "horizontal") = {}
    /\ anchor.pt = None

\* the straight grids along the axis with index k, for the loop of
\* Align Views in Sheets 3
AlongAxis3(k) ==
    {n \in DOMAIN grids :
        /\ grids[n].Curve # None
        /\ grids[n].Curve.isLine
        /\ IsAlongAxis(VSub(grids[n].Curve.p1, grids[n].Curve.p0), k)}
\* the origins of the grids, as <<x, y>> by index
Origins3 == [n \in DOMAIN grids |->
               IF grids[n].Curve = None THEN None ELSE grids[n].Curve.p0]

\* C5: among candidates with the same least coordinate the first in input
\* order is chosen (by min() in the locator and by the loop of Align Views in
\* Sheets 3), and a repeated run on the same input gives the same choice and
\* the same anchor.
C5_FirstWins ==
    /\ runs >= 1 =>
         \A cl \in {Classified(view, grids, axis_tol)} :
           /\ IF OfClass(cl, "vertical") = {} THEN anchor.left = 0
              ELSE FirstLeast(cl, OfClass(cl, "vertical"), 2, anchor.left)
           /\ IF OfClass(cl, "horizontal") = {} THEN anchor.bottom = 0
              ELSE FirstLeast(cl, OfClass(cl, "horizontal"), 3, anchor.bottom)
    /\ runs >= 2 => anchor = anchorPrev
    /\ pick3 # None =>
         /\ IF AlongAxis3(2) = {} THEN pick3.left = 0
            ELSE FirstLeast(Origins3, AlongAxis3(2), 1, pick3.left)
         /\ IF AlongAxis3(1) = {} THEN pick3.bottom = 0
            ELSE FirstLeast(Origins3, AlongAxis3(1), 2, pick3.bottom)

\* two vertical grids with the same mean x, the locator run twice and the
\* loop of Align Views in Sheets 3 run: the first of the two is the choice
C5_Witness ==
    /\ runs >= 2
    /\ pick3 # None
    /\ \E i \in DOMAIN grids : \E j \in DOMAIN grids :
         /\ i < j
         /\ {i, j} \subseteq OfClass(Classified(view, grids, axis_tol), "vertical")
         /\ Classified(view, grids, axis_tol)[i][2] = Classified(view, grids, axis_tol)[j][2]
         /\ anchor.left = i
         /\ pick3.left = i
         /\ anchor.pt # None

(***************************************************************************)
(* Properties of the extent calls                                          *)
(***************************************************************************)
EarlyMessages ==
    {"Skipped (curved grid).", "Skipped (degenerate grid line).",
     "Skipped (grid unsuitable in plan)."}
\* the last call came as far as intersecting the line with the box
Clips == call # None /\ call.out.msg \notin EarlyMessages
\* the last call came as far as computing its two end points
Offsets == Clips /\ call.out.loc.p1 # None
\* the rectangle of the view, and the edge of a side of it as <<from, to>>
Rect == bbox_corners_2d(bbox)
EdgeOf(rect, side) ==
    CASE side = "bottom" -> <<rect[1], rect[2]>>
      [] side = "right" -> <<rect[2], rect[3]>>
      [] side = "top" -> <<rect[3], rect[4]>>
      [] side = "left" -> <<rect[4], rect[1]>>
\* in the XY plane: the cross and the dot product, and p on the segment a b
Cross2(u, w) == RSub(RMul(u[1], w[2]), RMul(u[2], w[1]))
Dot2(u, w) == RAdd(RMul(u[1], w[1]), RMul(u[2], w[2]))
Between(t, len) == RGe(t, Zero) /\ RLe(t, len)
OnSegment(p, a, b) ==
    /\ Cross2(VSub(b, a), VSub(p, a)) = Zero
    /\ Between(Dot2(VSub(p, a), VSub(b, a)), Dot2(VSub(b, a), VSub(b, a)))
OnSide(rect, p, side) == OnSegment(p, EdgeOf(rect, side)[1], EdgeOf(rect, side)[2])
\* p on the line of grid.Curve, seen in plan
OnGridLine(p) ==
    Cross2(VSub(grid.Curve.p1, grid.Curve.p0), VSub(p, grid.Curve.p0)) = Zero
\* on which side of the line of grid.Curve the point p lies: -1, 0 or 1
SideSign(c) == IF c = Zero THEN 0 ELSE Sgn(c[1])
SideOfLine(p) ==
    SideSign(Cross2(VSub(grid.Curve.p1, grid.Curve.p0), VSub(p, grid.Curve.p0)))
CornerSides(rect) ==
    <<SideOfLine(rect[1]), SideOfLine(rect[2]), SideOfLine(rect[3]), SideOfLine(rect[4])>>
\* the line meets the boundary of the rectangle in two distinct points or
\* more: corners on both sides of it, or two corners on it
Straddles(sides) ==
    \/ \E i \in 1..4 : \E j \in 1..4 : sides[i] * sides[j] < 0
    \/ Cardinality({k \in 1..4 : sides[k] = 0}) >= 2
CrossesTwice == \E sides \in {CornerSides(Rect)} : Straddles(sides)
\* the hit h lies on the side it names and on the grid line
TrueHit(rect, h) == OnSide(rect, h[1], h[3]) /\ OnGridLine(h[1])

\* C6: for a straight grid, a call that stores or returns success has found
\* two distinct points A and B where the grid line meets the boundary of the
\* rectangle, and they are all the merged hits; a line that meets the
\* boundary in fewer than two distinct points (it misses the box or touches
\* one corner) gives 'grid does not intersect box twice' and the stored curve
\* stays as it was.
C6_TwoHits ==
    /\ call # None /\ call.out.cur2d # call.was => Clips /\ Len(call.out.loc.hits) >= 2
    /\ call # None /\ call.out.ok => Clips /\ Len(call.out.loc.hits) >= 2
    /\ Clips =>
         /\ Len(call.out.loc.hits) >= 2 <=> CrossesTwice
         /\ Len(call.out.loc.hits) < 2 =>
              /\ ~ call.out.ok
              /\ ~ call.out.raised
              /\ call.out.msg = "Skipped (grid does not intersect box twice)."
              /\ call.out.cur2d = call.was
         /\ Len(call.out.loc.hits) >= 2 =>
              /\ Len(call.out.loc.hits) = 2
              /\ call.out.msg # "Skipped (grid does not intersect box twice)."
              /\ {call.out.loc.A, call.out.loc.B} =
                    {call.out.loc.hits[1], call.out.loc.hits[2]}
              /\ ~ RBelowInvSq(Dist2(call.out.loc.A[1], call.out.loc.B[1]), MergeInv)
              /\ \A rect \in {Rect} :
                    TrueHit(rect, call.out.loc.A) /\ TrueHit(rect, call.out.loc.B)

\* the line touches one corner: two edges answer, one point remains, the call
\* fails and stores nothing
C6_Witness ==
    /\ Clips
    /\ Len(call.out.loc.hits) = 1
    /\ \E rect \in {Rect} : \E k \in 1..4 : call.out.loc.hits[1][1] = rect[k]
    /\ call.out.msg = "Skipped (grid does not intersect box twice)."
    /\ call.out.cur2d = call.was

\* the unit direction of grid.Curve
LineDir ==
    Multiply(VSub(grid.Curve.p1, grid.Curve.p0),
             RDiv(One, RSqrt(Dist2(grid.Curve.p1, grid.Curve.p0))))
\* the two ends of the last call before the remap, each as (side struck,
\* point of the line it is moved from, point it is moved to, offset and mode
\* of the side)
Move(h, foot, end) ==
    [side |-> h[3], hit |-> h[1], foot |-> foot, end |-> end,
     off |-> OffsetOf(offsets_ft, h[3]), outside |-> IsOutside(modes_by_side, h[3])]
Moves ==
    {Move(call.out.loc.A, call.out.loc.pA_on, call.out.loc.p1),
     Move(call.out.loc.B, call.out.loc.pB_on, call.out.loc.p2)}
\* the two points of the line at distance off from p
Along(dir, p, off) == {VAdd(p, Multiply(dir, off)), VSub(p, Multiply(dir, off))}
\* in plan, squared: how far the clipped end, the end moved to and the two
\* points at the offset are from the center c of the rectangle
Far(c, dir, m) ==
    [foot |-> dist2_xy(m.foot, c), end |-> dist2_xy(m.end, c),
     each |-> {dist2_xy(q, c) : q \in Along(dir, m.foot, m.off)}]
\* the end is farther from the center than the clipped end in outside mode,
\* nearer in inside mode
AsClaimed(m, far) ==
    IF m.outside THEN RGt(far.end, far.foot) ELSE RLt(far.end, far.foot)
\* the offset, as it shows in plan, is less than twice the distance in plan
\* from the clipped end to the point of the line nearest to c
ShortOfTwice(c, dir, m) ==
    RLt(RMul(m.off, Dot2(dir, dir)), RMul(I(2), RAbs(Dot2(VSub(m.foot, c), dir))))
Moved(c, dir, m, far) ==
    /\ m.end \in Along(dir, m.foot, m.off)
    /\ Dist2(m.end, m.foot) = RSq(m.off)
    /\ far.end \in far.each
    /\ \A d \in far.each : IF m.outside THEN RGe(far.end, d) ELSE RLe(far.end, d)
    /\ RGt(m.off, Zero) =>
         IF m.outside
         THEN RGt(far.end, far.foot)
         ELSE RLt(far.end, far.foot) <=> ShortOfTwice(c, dir, m)

\* C7 as claimed: each end is moved along the line by the offset of the side
\* it struck, to a point farther from the center in outside mode and to a
\* point nearer to the center in inside mode, for every positive offset.
C7_AsClaimed ==
    Offsets =>
      \A rect \in {Rect} : \A dir \in {LineDir} : \A m \in Moves :
        /\ m.end \in Along(dir, m.foot, m.off)
        /\ RGt(m.off, Zero) => \A far \in {Far(rect[5], dir, m)} : AsClaimed(m, far)

\* C7: each end is moved along the line by exactly the offset of the side it
\* struck, to the one of the two such points that is not nearer to the center
\* than the other in outside mode, and not farther in inside mode. In outside
\* mode that is farther from the center than the clipped end for every
\* positive offset; in inside mode it is nearer than the clipped end exactly
\* when the offset, as it shows in plan, is less than twice the distance in
\* plan from the clipped end to the point of the line nearest to the center.
C7_Offset ==
    Offsets =>
      \A rect \in {Rect} : \A dir \in {LineDir} : \A m \in Moves :
        /\ OnSide(rect, m.hit, m.side)
        /\ \A far \in {Far(rect[5], dir, m)} : Moved(rect[5], dir, m, far)

\* an end in inside mode with a positive offset that is moved to a point not
\* nearer to the center than the clipped end
C7_Witness ==
    /\ Offsets
    /\ \E rect \in {Rect} : \E m \in Moves :
         /\ ~ m.outside
         /\ RGt(m.off, Zero)
         /\ RGe(dist2_xy(m.end, rect[5]), dist2_xy(m.foot, rect[5]))

\* the scenario of C8: the line (0,0) - (10,0), the box (2,-5) - (8,5),
\* offset 1 on all sides and mode outside on left and right
Scenario ==
    /\ grid.Curve = GLine(P3(0, 0, 0), P3(10, 0, 0))
    /\ bbox = BoxPlain
    /\ offsets_ft = AllSides(One)
    /\ IsOutside(modes_by_side, "left")
    /\ IsOutside(modes_by_side, "right")

\* C8: in the scenario the ends computed are (1,0) and (9,0), and a call that
\* stores has stored the line with End-0 at (1,0) and End-1 at (9,0).
C8_Scenario ==
    Scenario /\ call # None =>
      /\ ~ call.out.raised => call.out.loc.p1 = P3(1, 0, 0) /\ call.out.loc.p2 = P3(9, 0, 0)
      /\ call.out.ok =>
           /\ call.out.loc.e0 = P3(1, 0, 0)
           /\ call.out.loc.e1 = P3(9, 0, 0)
           /\ call.out.cur2d = GLine(P3(1, 0, 0), P3(9, 0, 0))
           /\ grid.cur2d = GLine(P3(1, 0, 0), P3(9, 0, 0))

\* the scenario with the call succeeding at the first attempt
C8_Witness ==
    /\ Scenario
    /\ call # None
    /\ call.out.ok
    /\ call.out.msg = "Updated."
    /\ grid.cur2d = GLine(P3(1, 0, 0), P3(9, 0, 0))

\* the total squared XY distance of x to End-0 and of y to End-1 of the line b
Pairing(x, y, b) == RAdd(dist2_xy(x, b.p0), dist2_xy(y, b.p1))
\* the last call has assigned its ends against a reference line
Remapped == call # None /\ call.out.loc.basis # None

\* C9: the ends assigned to End-0 and End-1 are the two computed ends in the
\* pairing with the smaller total squared XY distance to End-0 and End-1 of
\* the reference line; they are swapped only when the swapped pairing is
\* strictly smaller, the two totals never being equal in a call; and handing
\* the two computed ends over in the other order gives the same assignment.
C9_Pairing ==
    Remapped =>
      /\ call.out.ok /\ call.out.loc.path = "primary" =>
           {call.out.loc.e0, call.out.loc.e1} = {call.out.loc.p1, call.out.loc.p2}
      /\ RLt(Pairing(call.out.loc.e0, call.out.loc.e1, call.out.loc.basis),
             Pairing(call.out.loc.e1, call.out.loc.e0, call.out.loc.basis))
      /\ call.out.loc.path # "fallback" =>
           /\ <<call.out.loc.e0, call.out.loc.e1>> = <<call.out.loc.p2, call.out.loc.p1>> =>
                RLt(Pairing(call.out.loc.p2, call.out.loc.p1, call.out.loc.basis),
                    Pairing(call.out.loc.p1, call.out.loc.p2, call.out.loc.basis))
           /\ _map_endpoints_to_basis(call.out.loc.p2, call.out.loc.p1, call.out.loc.basis)
                = <<call.out.loc.e0, call.out.loc.e1>>
      /\ call.out.ok =>
           call.out.cur2d = GLine(call.out.loc.e0, call.out.loc.e1)

\* inside offsets that make the two computed ends cross over: they are
\* swapped and stored
C9_Witness ==
    /\ Remapped
    /\ call.out.ok
    /\ call.out.loc.p1 # call.out.loc.p2
    /\ call.out.loc.e0 = call.out.loc.p2
    /\ call.out.loc.e1 = call.out.loc.p1

\* offset 0 and mode outside on all four sides
NoOpOffset == offsets_ft = AllSides(Zero) /\ modes_by_side = AllSides("outside")

\* C10: with offset 0 and mode outside on all sides, a call that succeeds
\* after a call that succeeded stores the curve the earlier call stored, with
\* the same End-0 and End-1.
C10_Idempotent ==
    NoOpOffset /\ callPrev # None /\ callPrev.ok /\ call.out.ok =>
      /\ call.out.cur2d = callPrev.cur2d
      /\ call.was = callPrev.cur2d
      /\ call.out.cur2d.p0 = call.was.p0
      /\ call.out.cur2d.p1 = call.was.p1

\* two successful calls in a row with the no-op offset
C10_Witness ==
    /\ NoOpOffset
    /\ calls >= 2
    /\ callPrev # None
    /\ callPrev.ok
    /\ call.out.ok
    /\ call.out.cur2d = callPrev.cur2d

\* the two ends of a line are closer than min_len_ft
TooShort(a, b) == RBelowInvSq(Dist2(a, b), MinLenInv)

C18_AsClaimed ==
    call # None /\ ~ call.out.ok /\ ~ call.out.raised =>
      /\ call.out.cur2d = call.was
      /\ grid.cur2d = call.was

\* what holds of the failures: one returned before line 292 leaves the curve
\* as it was; one returned after it leaves the curve ensure_2d_in_view stored
Refusals ==
    EarlyMessages \cup {"Skipped (grid does not intersect box twice).",
                        "Skipped (new 2D length too small)."}
C18_Frame ==
    call # None /\ ~ call.out.ok /\ ~ call.out.raised =>
      IF call.out.msg \in Refusals
      THEN call.out.cur2d = call.was
      ELSE /\ call.out.msg \in {"ERROR: ex1", "ERROR (fallback failed)"}
           /\ call.out.cur2d \in
                {grid.Curve} \cup {grid.model[n] : n \in DOMAIN grid.model \cap {1}}

\* a grid without a view-specific curve, a first attempt and a fallback that
\* the host refuses: ERROR is returned and the grid has a curve in the view
C18_Witness ==
    /\ call # None
    /\ ~ call.out.ok
    /\ ~ call.out.raised
    /\ call.was = None
    /\ call.out.cur2d # None
    /\ grid.cur2d # None

(***************************************************************************)
(* Properties of the text note of Align Views in Sheets 3                  *)
(***************************************************************************)
\* the rotations the dispatch of lines 179-186 names
KnownRotations ==
    {"None", "NinetyDegreesCounterclockwise", "Clockwise", "Halfway",
     "OneHundredEightyDegrees"}

\* the pass reached the dispatch on the rotation of the viewport of the view
\* it used
Dispatched == note3 # None /\ note3.scaled # None

ViewportUsed == sheet3.views[note3.used].viewport

\* the offset on the sheet the rotation matrix of the rotation gives for the
\* offset (x, y) in the view
ByMatrix(rotation, x, y) ==
    CASE rotation = "None" -> <<x, y>>
      [] rotation = "NinetyDegreesCounterclockwise" -> <<RNeg(y), x>>
      [] rotation = "Clockwise" -> <<y, RNeg(x)>>
      [] OTHER -> <<RNeg(x), RNeg(y)>>

\* C12: the scaled offset (x, y) in the view becomes the offset (x, y) on the
\* sheet for no rotation, (-y, x) for 90 degrees counter-clockwise, (y, -x)
\* for 90 degrees clockwise and (-x, -y) for 180 degrees, with no Z part, and
\* the text note is created at the box center of the viewport plus that
\* offset; 90 degrees counter-clockwise takes (3, 4) to (-4, 3)
C12_Mapping ==
    Dispatched /\ note3.off # None =>
        /\ <<note3.off[1], note3.off[2]>> =
               ByMatrix(ViewportUsed.Rotation, note3.scaled[1], note3.scaled[2])
        /\ note3.off[3] = Zero
        /\ note3.at # None => note3.at = VAdd(ViewportUsed.center, note3.off)
        /\ ViewportUsed.Rotation = "NinetyDegreesCounterclockwise"
             /\ note3.scaled = P3(3, 4, 0) => note3.off = P3(-4, 3, 0)

C12_Witness ==
    /\ Dispatched
    /\ ViewportUsed.Rotation = "NinetyDegreesCounterclockwise"
    /\ note3.scaled = P3(3, 4, 0)
    /\ note3.off = P3(-4, 3, 0)
    /\ note3.at = VAdd(ViewportUsed.center, P3(-4, 3, 0))

\* C13: a rotation that is none of the four known values leaves no position
\* and no text note, and the warning of the unsupported rotation is printed;
\* each of the four known values gives an offset on the sheet, a zero offset
\* too, and the text note is created there (at the box center for the zero
\* offset) when the host creates it
C13_Unsupported ==
    Dispatched =>
        IF ViewportUsed.Rotation \notin KnownRotations
        THEN /\ note3.off = None
             /\ note3.at = None
             /\ ~ note3.raised
             /\ note3.msg = "Warning: Unsupported viewport rotation"
        ELSE /\ note3.off # None
             /\ note3.msg # "Warning: Unsupported viewport rotation"
             /\ note3.raised = ~ sheet3.createOK
             /\ sheet3.createOK =>
                  /\ note3.at = VAdd(ViewportUsed.center, note3.off)
                  /\ note3.msg = "Success"
                  /\ note3.scaled = P3(0, 0, 0) => note3.at = ViewportUsed.center

C13_Witness ==
    /\ Dispatched
    /\ ViewportUsed.Rotation \notin KnownRotations
    /\ note3.scaled = P3(3, 4, 0)
    /\ note3.at = None
    /\ note3.msg = "Warning: Unsupported viewport rotation"

\* the zero offset under a known rotation: the note sits at the box center
C13_ZeroPlaced ==
    /\ Dispatched
    /\ ViewportUsed.Rotation = "Halfway"
    /\ note3.scaled = P3(0, 0, 0)
    /\ note3.at = ViewportUsed.center

(***************************************************************************)
(* Properties of the legacy sheet point                                    *)
(***************************************************************************)
\* the model point on the right / up basis of the view
ViewPlane(v, p) ==
    <<DotProduct(VSub(p, v.Origin), v.RightDirection),
      DotProduct(VSub(p, v.Origin), v.UpDirection)>>

\* the midpoint of Min and Max of the crop box
CropCenter(v) ==
    <<RDiv(RAdd(v.CropBox.Min[1], v.CropBox.Max[1]), I(2)),
      RDiv(RAdd(v.CropBox.Min[2], v.CropBox.Max[2]), I(2))>>

\* the offset from the box center, brought back to the plane of the view
BackInView(v, box_center, sheet_point) ==
    <<RAdd(RMul(RSub(sheet_point[1], box_center[1]), I(v.Scale)), CropCenter(v)[1]),
      RAdd(RMul(RSub(sheet_point[2], box_center[2]), I(v.Scale)), CropCenter(v)[2])>>

\* C14: the legacy strategy returns box_center + (view_plane(model_point) -
\* crop_center) / scale: the offset from the box center, times the scale and
\* moved by the crop center, is the model point on the right / up basis of
\* the view, and the Z of the box center is kept
C14_Legacy ==
    sheet_pt2 # None =>
        /\ BackInView(point2.view, point2.viewport.center, sheet_pt2) =
               ViewPlane(point2.view, point2.model_point)
        /\ sheet_pt2[3] = point2.viewport.center[3]

\* on a turned view at scale 2: the point (4,3,9) with crop center
\* (3/2, 1) and box center (3,1,0)
C14_Witness ==
    /\ sheet_pt2 # None
    /\ point2.view.RightDirection = P3(0, 1, 0)
    /\ point2.view.Scale = 2
    /\ point2.model_point = P3(4, 3, 9)
    /\ point2.viewport.center = P3(3, 1, 0)
    /\ point2.view.CropBox.Min = P3(-4, -2, -1)
    /\ sheet_pt2 = <<Q(15, 4), Q(-3, 2), Zero>>

(***************************************************************************)
(* Properties of the sheet loop                                            *)
(***************************************************************************)
\* the sheets the skipped list names
SkippedSheets == {run2.skipped[i][1] : i \in DOMAIN run2.skipped}

\* C17: a failure on one item does not abort the batch: at the end of the
\* run every viewport of every sheet whose viewport loop was begun has been
\* processed, and every sheet was reached
C17_AsClaimed ==
    run2 # None /\ run2.pc = "done" =>
        /\ run2.listed \subseteq run2.tried
        /\ run2.sheet = run2.sheets + 1

\* what the loop does keep: every sheet of the run is reached, every sheet
\* on which something failed by an exception or a refused check is named in
\* the skipped list, and no viewport moved in a transaction that was rolled
\* back stays moved
C17_Sheets ==
    run2 # None /\ run2.pc = "done" =>
        /\ run2.sheet = run2.sheets + 1
        /\ \A f \in run2.failed :
             f[1] \in SkippedSheets \/ \E c \in run2.committed : c[1] = f[1]
        /\ \A c \in run2.committed : c \in run2.tried

\* C27: in Align Views in Sheets 2 every view the final report lists as
\* Aligned is on a sheet whose transaction was committed.
C27_Reported ==
    run2 # None /\ run2.pc = "done" /\ run2.script = "Align Views in Sheets 2" =>
        \A i \in DOMAIN run2.processed_views :
            run2.processed_views[i] \in run2.committed

\* the sheets whose transaction was started, and those it was ended on by
\* the call named
StartedOn == {run2.txlog[i][1] : i \in {j \in DOMAIN run2.txlog : run2.txlog[j][2] = "Start"}}
EndedBy(how) == {run2.txlog[i][1] : i \in {j \in DOMAIN run2.txlog : run2.txlog[j][2] = how}}
Commits == {j \in DOMAIN run2.txlog : run2.txlog[j][2] = "Commit"}

\* the calls on the sheets' transactions come in pairs: a Start, then one
\* Commit or RollBack of the same sheet, before the Start of a later sheet
Paired ==
    \A i \in DOMAIN run2.txlog :
        IF i % 2 = 1
        THEN /\ run2.txlog[i][2] = "Start"
             /\ i > 2 => run2.txlog[i - 2][1] < run2.txlog[i][1]
        ELSE /\ run2.txlog[i][2] \in {"Commit", "RollBack"}
             /\ run2.txlog[i][1] = run2.txlog[i - 1][1]

\* C28: in both scripts the transaction of a sheet, once started, is ended
\* exactly once before the next sheet starts; it is committed iff a viewport
\* of the sheet was moved and no exception reached the except of the sheet's
\* block, and otherwise rolled back with the sheet recorded as skipped; in
\* Align Views in Sheets the counter processed is the number of commits.
C28_Protocol ==
    run2 # None =>
        /\ Paired
        /\ IF run2.pc = "vp"
           THEN /\ Len(run2.txlog) % 2 = 1
                /\ run2.txlog[Len(run2.txlog)] = <<run2.sheet, "Start">>
           ELSE Len(run2.txlog) % 2 = 0
        /\ \A n \in StartedOn :
              n < run2.sheet =>
                /\ n \in EndedBy("Commit") <=> (n \in run2.moved_on /\ n \notin run2.raised)
                /\ n \notin EndedBy("Commit") =>
                       n \in EndedBy("RollBack") /\ n \in SkippedSheets
        /\ run2.script = "Align Views in Sheets" =>
              run2.processed = Cardinality(Commits)

\* a run of Align Views in Sheets over two sheets: the transaction of the
\* first was rolled back after a viewport had been moved, that of the second
\* committed
C28_Witness ==
    /\ run2 # None
    /\ run2.pc = "done"
    /\ run2.script = "Align Views in Sheets"
    /\ run2.txlog = <<<<1, "Start">>, <<1, "RollBack">>, <<2, "Start">>, <<2, "Commit">>>>
    /\ 1 \in run2.moved_on
    /\ run2.processed = 1

\* a run of two sheets in which a call on the first viewport of the first
\* sheet raised and the second sheet was still aligned
C17_Witness ==
    /\ run2 # None
    /\ run2.pc = "done"
    /\ run2.sheets = 2
    /\ <<1, 1>> \in run2.failed
    /\ <<1, 2>> \in run2.listed \ run2.tried
    /\ run2.skipped = <<<<1, "Runtime Error">>>>
    /\ <<2, 1>> \in run2.committed


(***************************************************************************)
(* Properties of the checks and the clipping of set_grid_2d_extents_in_view *)
(***************************************************************************)
\* the refusal the curve c calls for, "" when none: not a straight line;
\* else end points less than tol apart; else a direction whose part in plan
\* is less than tol of its length
RefusalOf(c) ==
    IF ~ c.isLine THEN "Skipped (curved grid)."
    ELSE IF RBelowInvSq(Dist2(c.p0, c.p1), TolInv) THEN "Skipped (degenerate grid line)."
    ELSE IF RBelowInvSq(RDiv(RAdd(RSq(RSub(c.p1[1], c.p0[1])), RSq(RSub(c.p1[2], c.p0[2]))),
                             Dist2(c.p0, c.p1)), TolInv)
         THEN "Skipped (grid unsuitable in plan)."
    ELSE ""

\* C21: a grid whose curve is no straight line is refused as curved; a line
\* shorter than tol as degenerate; a line whose direction has a part in plan
\* below tol as unsuitable in plan, in this order; a refused call has
\* computed no intersection and leaves the view-specific curve as it was,
\* and no other call gets one of the three answers
C21_Rejects ==
    call # None /\ ~ call.out.raised =>
        \A refusal \in {RefusalOf(grid.Curve)} :
            /\ refusal # "" =>
                 /\ ~ call.out.ok
                 /\ call.out.msg = refusal
                 /\ call.out.loc = NoLocals
                 /\ call.out.cur2d = call.was
            /\ refusal = "" => call.out.msg \notin EarlyMessages

\* the closed arc is refused as curved, though its end points coincide
C21_Witness ==
    /\ call # None
    /\ ~ grid.Curve.isLine
    /\ grid.Curve.p0 = grid.Curve.p1
    /\ call.out.msg = "Skipped (curved grid)."
    /\ call.was # None
    /\ grid.cur2d = call.was

\* in space: u and w are parallel
Parallel3(u, w) ==
    /\ RMul(u[1], w[2]) = RMul(u[2], w[1])
    /\ RMul(u[2], w[3]) = RMul(u[3], w[2])
    /\ RMul(u[1], w[3]) = RMul(u[3], w[1])

\* how far along the direction d of the grid line the point p lies, in plan
AlongLine(p, d) == Dot2(VSub(p, grid.Curve.p0), d)

\* foot is the point of the line of grid.Curve nearest to p in space
FootOf(p, foot, d) ==
    /\ Parallel3(VSub(foot, grid.Curve.p0), d)
    /\ DotProduct(VSub(p, foot), d) = Zero

\* the end moved to is one of the two points of the line at the offset of
\* the side struck from the foot, the one the mode of that side asks for
BySide(c, dir, m) ==
    /\ m.off = OffsetOf(offsets_ft, m.side)
    /\ m.outside = IsOutside(modes_by_side, m.side)
    /\ m.end \in Along(dir, m.foot, m.off)
    /\ \A q \in Along(dir, m.foot, m.off) :
         IF m.outside THEN RGe(dist2_xy(m.end, c), dist2_xy(q, c))
         ELSE RLe(dist2_xy(m.end, c), dist2_xy(q, c))

Stores == call # None /\ call.out.loc.tries # <<>>

\* p on the line through the end points of the line c, in space
OnLineOf(c, p) == Parallel3(VSub(p, c.p0), VSub(c.p1, c.p0))

\* the retry stored the curve the call leaves: its end points are the
\* minimum length or more apart and lie on the view-specific line cur that
\* the view held when the first attempt failed
Retried(out, cur) ==
    /\ out.ok
    /\ out.msg = "Updated (fallback 2D basis)."
    /\ out.cur2d = GLine(out.loc.e0, out.loc.e1)
    /\ ~ RBelowInvSq(Dist2(out.loc.e0, out.loc.e1), MinLenInv)
    /\ cur # None /\ cur.isLine
    /\ OnLineOf(cur, out.loc.e0) /\ OnLineOf(cur, out.loc.e1)

\* C23: the first attempt to store the computed line is made once; a retry on
\* the direction of the view-specific line of the grid is made once, and only
\* when the first attempt failed; the retry stores only end points the
\* minimum length or more apart; when the retry is not possible or fails,
\* the call returns an ERROR result and the curve stays as the first attempt
\* found it; no exception leaves the call from the first attempt on
C23_Retry ==
    Stores =>
      \A tries \in {call.out.loc.tries} :
        /\ ~ call.out.raised
        /\ Len(tries) <= 2
        /\ tries[1].what = "primary"
        /\ tries[1].ok =>
             /\ Len(tries) = 1
             /\ call.out.ok /\ call.out.msg = "Updated."
        /\ Len(tries) = 2 => ~ tries[1].ok /\ tries[2].what = "fallback"
        /\ Len(tries) = 2 /\ tries[2].ok => Retried(call.out, call.out.loc.basis)
        /\ Len(tries) = 2 /\ ~ tries[2].ok =>
             /\ ~ call.out.ok
             /\ call.out.msg = "ERROR (fallback failed)"
             /\ call.out.cur2d # None
             /\ call.out.cur2d \in {grid.Curve} \cup {grid.model[n] : n \in DOMAIN grid.model}
        /\ Len(tries) = 1 /\ ~ tries[1].ok =>
             /\ ~ call.out.ok
             /\ call.out.msg = "ERROR: ex1"

\* a call whose first attempt failed and whose retry stored the line
C23_Witness ==
    /\ Stores
    /\ Len(call.out.loc.tries) = 2
    /\ ~ call.out.loc.tries[1].ok
    /\ call.out.loc.tries[2].ok
    /\ call.out.msg = "Updated (fallback 2D basis)."
    /\ grid.cur2d = GLine(call.out.loc.e0, call.out.loc.e1)

\* a call whose first attempt failed and whose retry failed too
C23_BothFailed ==
    /\ Stores
    /\ Len(call.out.loc.tries) = 2
    /\ ~ call.out.loc.tries[2].ok


(***************************************************************************)
(* Properties of the alignment of one viewport                             *)
(***************************************************************************)
\* the sheet point of the anchor as the strategy of the last pass gives it
\* for the viewport as it is now
ImageNow ==
    IF pass2.strategy = "direct" THEN DirectPoint(vp2.vp) ELSE LegacyOf(vp2.vp)

\* C24: the transform of the viewport is used whenever the viewport has one,
\* the legacy reconstruction only when it has none (never in Align Views in
\* Sheets, which has no legacy strategy); when the strategy taken gives no
\* sheet point, the other is not tried, the box center stays where it was
\* and an entry for the sheet is appended to skipped
C24_Selection ==
    pass2 # None =>
        /\ vp2.vp.exposes => pass2.strategy = "direct"
        /\ pass2.strategy = "legacy" =>
             ~ vp2.vp.exposes /\ vp2.script = "Align Views in Sheets 2"
        /\ ~ vp2.vp.exposes =>
             pass2.strategy = IF vp2.script = "Align Views in Sheets 2"
                              THEN "legacy" ELSE "none"
        /\ pass2.current = None <=>
             \/ pass2.strategy = "none"
             \/ pass2.strategy = "direct" /\ vp2.vp.image = None
             \/ pass2.strategy = "legacy" /\ ~ vp2.vp.cropOK
        /\ pass2.current = None =>
             /\ ~ pass2.moved
             /\ pass2.center = pass2.was
             /\ vp2.vp.center = pass2.was
             /\ pass2.skipped # ""
        /\ pass2.current # None => pass2.skipped = "" /\ pass2.moved

\* the transform of the viewport raises while the crop box could be read:
\* the legacy strategy is not tried, the viewport stays, the sheet is listed
C24_Witness ==
    /\ pass2 # None
    /\ vp2.script = "Align Views in Sheets 2"
    /\ vp2.vp.exposes /\ vp2.vp.image = None /\ vp2.vp.cropOK
    /\ pass2.strategy = "direct"
    /\ pass2.skipped = "Error calculating transform"
    /\ vp2.vp.center = pass2.was

\* C26: a viewport that is moved has its box center shifted by target_pt -
\* current_sheet_pt in X and Y; the sheet point of the anchor, which follows
\* the box center, is then the target point in X and Y; and the next pass
\* with the same settings finds it there and leaves the box center unchanged
C26_Aligned ==
    pass2 # None /\ pass2.moved =>
        /\ \A k \in {1, 2} :
             /\ RSub(pass2.center[k], pass2.was[k]) =
                    RSub(vp2.target_pt[k], pass2.current[k])
             /\ ImageNow[k] = vp2.target_pt[k]
        /\ vp2.vp.center = pass2.center
        /\ vp2.passes = 2 =>
             /\ pass2.current[1] = vp2.target_pt[1]
             /\ pass2.current[2] = vp2.target_pt[2]
             /\ pass2.center = pass2.was

\* the second pass over a viewport that the first pass moved by a delta
\* other than zero
C26_Witness ==
    /\ pass2 # None /\ pass2.moved
    /\ vp2.passes = 2
    /\ pass2.strategy = "legacy"
    /\ pass2.center = pass2.was
    /\ ImageNow[1] = vp2.target_pt[1] /\ ImageNow[2] = vp2.target_pt[2]
    /\ vp2.vp.center # P3(3, 1, 0) /\ vp2.vp.center # P3(0, 0, 2)

\* the direction of the ends the last call assigned, and of its reference line
AssignedDir == VSub(call.out.loc.e1, call.out.loc.e0)
ReferenceDir == VSub(call.out.loc.basis.p1, call.out.loc.basis.p0)

\* C29: after _map_endpoints_to_basis the direction from the new End-0 to the
\* new End-1 never opposes the direction of the reference line from its End-0
\* to its End-1: their XY dot product is at least 0, also when inside offsets
\* make the two computed ends cross over.
C29_Direction ==
    Remapped /\ call.out.loc.basis.isLine =>
      RLe(Zero, Dot2(AssignedDir, ReferenceDir))

\* inside offsets carried the two computed ends past each other: from the
\* first to the second they run against the reference line, and the call
\* assigned them the other way round
C29_Witness ==
    /\ Remapped
    /\ call.out.loc.basis.isLine
    /\ RLt(Dot2(VSub(call.out.loc.p2, call.out.loc.p1),
                 VSub(call.out.loc.pB_on, call.out.loc.pA_on)), Zero)
    /\ RLt(Dot2(VSub(call.out.loc.p2, call.out.loc.p1), ReferenceDir), Zero)
    /\ RLt(Zero, Dot2(AssignedDir, ReferenceDir))

(***************************************************************************)
(* Properties of the grid loop of Grids2DOffsets                           *)
(***************************************************************************)
\* what a pass over the grid in the view pr of the start of the run leaves,
\* whatever was passed before
AloneOn(pr) ==
    GridLoopBody(pr, bbox_corners_2d(bbox), offsets_ft, modes_by_side, loop2.end_choice)

\* the grids passed so far
Passes == DOMAIN loop2.pairs \ loop2.todo

\* C25: the results do not depend on the order of the calls: whatever grids
\* were passed before it, in any order, a grid in a view is left by its pass
\* with the view-specific curve, and so the End-0 and End-1, that its pass
\* alone gives it from the start of the run, and a grid not passed yet is as
\* it was at the start, a call reading and writing its own pair only.
C25_OrderFree ==
    loop2 # None =>
        \A i \in DOMAIN loop2.pairs :
            IF i \in loop2.todo
            THEN loop2.pairs[i] = loop2.first[i]
            ELSE loop2.pairs[i].grid = AloneOn(loop2.first[i]).grid

\* of two grids the second was passed before the first: its call stored a
\* new line, and the first, which holds a 2D curve of its own, is untouched
C25_Witness ==
    /\ loop2 # None
    /\ Len(loop2.pairs) = 2
    /\ loop2.todo = {1}
    /\ loop2.pairs[2].said = "results"
    /\ loop2.pairs[2].grid.cur2d # loop2.first[2].grid.cur2d
    /\ loop2.pairs[1].grid.cur2d # None
    /\ loop2.pairs[1].grid.cur2d # loop2.pairs[2].grid.cur2d

\* C30: for every grid whose call returned, End-0's bubble is shown iff the
\* end choice is "End 1 Only" or "Both Ends" and End-1's iff it is
\* "End 2 Only" or "Both Ends", an unknown choice showing both; and
\* grids_modified counts the grids whose call succeeded.
C30_AsClaimed ==
    loop2 # None =>
        /\ \A i \in Passes :
             loop2.pairs[i].said \in {"results", "skipped"} =>
               /\ loop2.pairs[i].bubbles[1] <=>
                    \/ loop2.end_choice \in {"End 1 Only", "Both Ends"}
                    \/ loop2.end_choice \notin END_CHOICES
               /\ loop2.pairs[i].bubbles[2] <=>
                    \/ loop2.end_choice \in {"End 2 Only", "Both Ends"}
                    \/ loop2.end_choice \notin END_CHOICES
        /\ loop2.grids_modified =
             Cardinality({i \in Passes : loop2.pairs[i].said = "results"})

\* what the loop does keep: apply_grid_end_choice is called for every grid
\* whose call returned and for no grid whose call raised; a bubble the host
\* lets it change is as the end choice says, and one the host refuses to
\* change is as it was; grids_modified counts the grids whose call succeeded
C30_Bubbles ==
    loop2 # None =>
        /\ \A i \in Passes :
             /\ loop2.pairs[i].ends <=> loop2.pairs[i].said \in {"results", "skipped"}
             /\ \A e \in {1, 2} :
                  loop2.pairs[i].bubbles[e] =
                    IF loop2.pairs[i].ends /\ loop2.pairs[i].accepts[e]
                    THEN END_MAP(loop2.end_choice)[e]
                    ELSE loop2.first[i].bubbles[e]
        /\ loop2.grids_modified =
             Cardinality({i \in Passes : loop2.pairs[i].said = "results"})

\* a grid whose call stored a line and whose End-0 bubble the host refused
\* to show: the end choice shows both ends, and End-0's bubble is hidden
C30_Witness ==
    /\ loop2 # None
    /\ loop2.end_choice = "Both Ends"
    /\ \E i \in Passes :
         /\ loop2.pairs[i].said = "results"
         /\ ~ loop2.pairs[i].accepts[1]
         /\ ~ loop2.pairs[i].bubbles[1]
         /\ loop2.pairs[i].bubbles[2]
    /\ loop2.grids_modified = 1

====
